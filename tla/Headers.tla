------------------------------ MODULE Headers ------------------------------
(***************************************************************************)
(* headers.yaml (internal/config/config.go): the file that maps the        *)
(* indexes of the chip's headers to the names printed on the board, and    *)
(* the way back from a name to an index.                                   *)
(*                                                                         *)
(* A name is abstracted to what its normalisation looks at: a stem, the    *)
(* number of "/WP" at its end, and whether it is spelled canonically (in   *)
(* upper case, without blanks).  A configuration is the function from      *)
(* index to name; nil and an empty map behave alike in every method, and   *)
(* both are NoHeaders.  Notes and the chip field, which nothing reads, are *)
(* left out, and so are two keys that spell one index ("1", "01").         *)
(***************************************************************************)
EXTENDS Integers, FiniteSets

CONSTANTS
    Stems,          \* what is left of a name without case, blanks and "/WP"
    FanStem         \* the stem of "fanN", the label of a header without a name

EmptyStem == ""

ASSUME HeadersAssumption ==
    /\ EmptyStem \notin Stems
    /\ \A i \in DOMAIN FanStem : FanStem[i] \in Stems

MaxSuffixes == 2    \* bound: "/WP" in a row

Name == [stem : Stems \cup {EmptyStem}, suffixes : 0..MaxSuffixes, canonical : BOOLEAN]

Plain(stem) == [stem |-> stem, suffixes |-> 0, canonical |-> TRUE]
Empty(n)    == n.stem = EmptyStem /\ n.suffixes = 0

NoIndex == 0        \* the error of IndexByName

-----------------------------------------------------------------------------
(* The file.                                                               *)

IsConfig(c, I) == DOMAIN c \subseteq I /\ c \in [DOMAIN c -> Name]
NoHeaders == [i \in {} |-> Plain(EmptyStem)]

\* A file: does it exist, is it YAML of the right shape, its map.  The keys
\* are whatever numbers somebody typed.
IsFile(f)  == /\ f = [exists |-> f.exists, yaml |-> f.yaml, headers |-> f.headers]
              /\ f.exists \in BOOLEAN /\ f.yaml \in BOOLEAN
              /\ IsConfig(f.headers, Int)
NoFile     == [exists |-> FALSE, yaml |-> TRUE, headers |-> NoHeaders]
Holding(c) == [exists |-> TRUE, yaml |-> TRUE, headers |-> c]

\* Mutant: an index is not checked.
ParsesAnything(file) == file.yaml

\* Parse succeeds.
Parses(file) == file.yaml /\ \A i \in DOMAIN file.headers : i > 0

\* Find: a missing file is no error, a malformed one is.
Found(file)  == file.exists => Parses(file)
Find(file)   == IF file.exists THEN file.headers ELSE NoHeaders

-----------------------------------------------------------------------------
(* Names.                                                                  *)

\* Case and blanks go first, then one suffix.
normalizeName(n) ==
    [stem |-> n.stem, canonical |-> TRUE,
     suffixes |-> IF n.suffixes = 0 THEN 0 ELSE n.suffixes - 1]

Matches(cfg, n) == {i \in DOMAIN cfg : normalizeName(cfg[i]) = normalizeName(n)}

\* Mutant: the first match will do.
IndexOfFirst(cfg, n) ==
    IF Empty(normalizeName(n)) \/ Matches(cfg, n) = {} THEN NoIndex
    ELSE CHOOSE i \in Matches(cfg, n) : \A j \in Matches(cfg, n) : i <= j

\* Refused: no name, no such header, more than one such header.
IndexByName(cfg, n) ==
    IF ~Empty(normalizeName(n)) /\ \E i \in DOMAIN cfg : Matches(cfg, n) = {i}
    THEN CHOOSE i \in DOMAIN cfg : Matches(cfg, n) = {i}
    ELSE NoIndex

Named(cfg, i) == i \in DOMAIN cfg /\ ~Empty(cfg[i])

\* The name under which the daemon lists header i (fansFromStatus).
Label(cfg, i) ==
    IF Named(cfg, i) THEN cfg[i]
    ELSE [Plain(FanStem[i]) EXCEPT !.canonical = FALSE]
=============================================================================
