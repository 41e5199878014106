------------------------------ MODULE PageText ------------------------------
(***************************************************************************)
(* Text as the page readers see it.  A reader never looks at a text as     *)
(* characters: it asks, with one pattern after another, what the text says *)
(* first.  A text is therefore the function that gives, for every pattern  *)
(* of its reader, what that pattern finds first, Null where it finds       *)
(* nothing.  An element that is absent, or empty, is Null itself.          *)
(***************************************************************************)
EXTENDS Naturals, Sequences, FiniteSets, FiniteSetsExt, SequencesExt, Functions

CONSTANT Null

\* The left operand unless it is null: the ?? of the source.
Else(a, b) == IF a = Null THEN b ELSE a

\* A text of these patterns that says nothing any of them recognises.
Silent(patterns) == [p \in patterns |-> Null]

\* Two texts one after the other: each pattern finds its first match.
Join(a, b) == [p \in DOMAIN a |-> Else(a[p], b[p])]

\* The texts of a sequence, the absent ones left out, run together.
JoinAll(texts, silent) == FoldLeft(LAMBDA all, t : IF t = Null THEN all ELSE Join(all, t), silent, texts)

\* The first entry of a sequence that passes a test, Null when none does.
FirstThat(seq, Test(_)) ==
  LET at == {i \in DOMAIN seq : Test(seq[i])} IN IF at = {} THEN Null ELSE seq[Min(at)]

\* A record together with the fields of another one that it lacks.
f ++ g == [x \in DOMAIN f \cup DOMAIN g |-> IF x \in DOMAIN f THEN f[x] ELSE g[x]]

\* The entries of a sequence at some of its places, in their order; and those
\* that pass a test: SelectSeq, as a function that a proof can unfold.
KeptAt(seq, at) ==
  LET upTo[n \in 0..Len(seq)] ==
        IF n = 0 THEN <<>> ELSE IF n \in at THEN Append(upTo[n - 1], seq[n]) ELSE upTo[n - 1]
  IN  upTo[Len(seq)]
Kept(seq, Test(_)) == KeptAt(seq, {n \in DOMAIN seq : Test(seq[n])})

\* What pattern p finds in an element's text; nothing in an absent element.
In(text, p) == IF text = Null THEN Null ELSE text[p]

\* The warning a reader adds when a condition holds.
Warn(on, name) == IF on THEN {name} ELSE {}
=============================================================================
