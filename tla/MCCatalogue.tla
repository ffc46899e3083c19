---------------------------- MODULE MCCatalogue -----------------------------
(* An instance of Catalogue for TLC, and what the pure operators it is     *)
(* built on have to satisfy on bounded inputs.                             *)
EXTENDS Catalogue, TLC

CONSTANTS cA, cB, p1, r1, t1, o1, o2

Letters == {"underscore", "D", "R", "P", "0", "a", "b"}
Midnight == <<"0">>
Short == <<"a">>
Long == <<"a", "b", "a", "b">>
OneRepo == [p \in PRs |-> CHOOSE r \in Repos : TRUE]
InOrder == <<"file", "schema">>
OneSchema == {<<"b">>}
OneSharded == [c \in Clusters |-> IF c = cB THEN {"x", "y"} ELSE {""}]

Line(kind, value) == [kind |-> kind, value |-> value]
Say(verb, object) == Line("ddl", [verb |-> verb, object |-> object, ending |-> <<>>])
Magic == Line("magic", NoName)
Marked == Line("diff", NoName)

(* One for each kind of statement, with what an older comment left behind, *)
(* with both kinds of hints, and with one that cannot be evaluated.        *)
Edited == <<Magic, Line("use", "schema"), Say("DROP TABLE", Short), Magic,
            Line("file", "file"), Say("ALTER TABLE", Short)>>
InBody == <<Marked, Line("use", "schema"), Say("DROP TABLE", Long)>>
Ambiguous == <<Magic, Line("file", "file"), Line("use", "schema"),
               Say("ALTER DATABASE", <<"b">>), Say("CREATE TABLE", Long)>>
Elsewhere == <<Magic, Line("file", "file"), Say("DROP TABLE", Short), Say("ALTER DATABASE", <<"a">>)>>
(* Commands differ in nothing but when they are typed.                     *)
AnyOperator == Permutations(Operators)

FourComments == {Edited, InBody, Ambiguous, Elsewhere}

(* Of every comment of up to four lines, exactly the statements after the  *)
(* last magic marker count, or after the last diff marker if there is no   *)
(* magic one, in their order; the hints are the first ones among them.     *)
Kinds == {"magic", "diff", "file", "use", "ddl"}
Bodies == UNION {[1..n -> Kinds] : n \in 0..4}
Numbered(body) == [i \in DOMAIN body |-> Line(body[i], i)]
Live(body, i) ==
    LET marker == IF \E j \in DOMAIN body : body[j] = "magic" THEN "magic" ELSE "diff"
    IN  /\ \E j \in 1..(i - 1) : body[j] = marker
        /\ \A j \in i..Len(body) : body[j] # marker

ASSUME ParsesTheLastDiff == \A body \in Bodies :
    LET info == ParseSkeemaDiffStatements(Numbered(body))
        live(kind) == {i \in DOMAIN body : Live(body, i) /\ body[i] = kind}
    IN  /\ {info.Statements[k] : k \in DOMAIN info.Statements} = live("ddl")
        /\ \A k, l \in DOMAIN info.Statements : k < l => info.Statements[k] < info.Statements[l]
        /\ live("file") # {} => info.FileName \in live("file")
                                /\ \A i \in live("file") : info.FileName <= i
        /\ live("file") = {} => info.FileName = NoName
=============================================================================
