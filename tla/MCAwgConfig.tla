----------------------------- MODULE MCAwgConfig -----------------------------
(***************************************************************************)
(* The sections TLC reads.  No rule of ValidateASecConfig looks at keys of *)
(* two groups (junk, sizes, headers), so that each group varies on its own, *)
(* the others absent or valid.  Sizes are scaled down: the bases keep      *)
(* their order, and every two of them can be made equal.                   *)
(***************************************************************************)
EXTENDS AwgConfig

MCBaseSize == [S1 |-> 4, S2 |-> 2, S3 |-> 1, S4 |-> 0]

Others(given, s) == [k \in Keys |-> IF k \in given THEN s[k] ELSE Absent]

Numbers(S) == S \cup {Absent, NotANumber}

Junk == {Others(JunkKeys, s) : s \in [JunkKeys -> Numbers({-1, 0, 1, 2, 3, 4})]}

(* Every two sizes, and three or four that are small. *)
Sizes ==
    {Others({k, l}, [j \in {k, l} |-> IF j = k THEN m ELSE n]) :
        k, l \in SizeKeys, m, n \in Numbers({-1, 0, 1, 2, 3, 4})}
        \cup {Others(SizeKeys, s) : s \in [SizeKeys -> {Absent, 0, 1, 3}]}

Ranges == {<<1>>, <<1, 2>>, <<2, 4>>, <<5, 6>>, <<0, MaxHeader>>}

(* Every number, one too large, empty and reversed ranges, three parts. *)
OtherTexts ==
    {<<h>> : h \in 0..MaxHeader + 1}
        \cup {<<3, 3>>, <<6, 5>>, <<5, MaxHeader + 1>>, <<5, NotANumber>>,
              <<NotANumber>>, <<5, 6, 6>>}

Magic ==
    {Others(HeaderKeys, s) : s \in [HeaderKeys -> {Absent} \cup Ranges]}
        \cup {Others({k}, [l \in {k} |-> text]) : k \in HeaderKeys, text \in OtherTexts}

(* One of every kind, and with items. *)
Mixed ==
    {[k \in Keys |-> CASE k \in JunkKeys -> j
                       [] k \in SizeKeys -> n
                       [] k = "H1" -> h
                       [] k \in ItemKeys -> item
                       [] OTHER -> Absent] :
        j \in {Absent, 1}, n \in {Absent, 0}, h \in {Absent, <<2>>, <<5, 6>>},
        item \in {Absent, "", "<b 0x01>"}}

MCSections == Junk \cup Sizes \cup Magic \cup Mixed

=============================================================================
