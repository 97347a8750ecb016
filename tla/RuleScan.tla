------------------------------ MODULE RuleScan ------------------------------
(***************************************************************************)
(* The scan of RuleEngine over a normalized text with a PhraseTrie: a node *)
(* of the trie is the prefix that leads to it.  Normalization is text      *)
(* processing by characters and is left out.                               *)
(***************************************************************************)
EXTENDS Naturals, Sequences, FiniteSets

CONSTANTS Character,
          PhraseSet,   \* the sets of phrases of the rules
          TextToScan   \* normalized texts

\* No rule has the empty phrase.
ASSUME ScanAssumption == /\ \A rules \in PhraseSet : rules \subseteq Seq(Character) \ {<<>>}
                         /\ TextToScan \subseteq Seq(Character)

VARIABLES phrases, content, start, node, matches
scan == <<phrases, content, start, node, matches>>

ScanInit == /\ phrases \in PhraseSet
            /\ content \in TextToScan
            /\ start = 1
            /\ node = <<>>
            /\ matches = {}

\* _insert: every prefix of a phrase is a node, and the phrase an output of the last.
Nodes == UNION {{SubSeq(p, 1, n) : n \in 0..Len(p)} : p \in phrases}
Outputs(n) == {n} \cap phrases

Scanned == start > Len(content)
Ahead == SubSeq(content, start, start + Len(node))

HasChild == start + Len(node) <= Len(content) /\ Ahead \in Nodes

Descend == /\ ~Scanned /\ HasChild
           /\ node' = Ahead
           /\ matches' = matches \cup Outputs(Ahead)
           /\ UNCHANGED <<phrases, content, start>>

\* Mutant: the scan goes on behind what it has read.
StartBehind == /\ ~Scanned /\ ~HasChild
               /\ start' = start + (IF node = <<>> THEN 1 ELSE Len(node))
               /\ node' = <<>>
               /\ UNCHANGED <<phrases, content, matches>>

NextStart == /\ ~Scanned /\ ~HasChild
             /\ start' = start + 1
             /\ node' = <<>>
             /\ UNCHANGED <<phrases, content, matches>>

ScanNext == Descend \/ NextStart

ScanSpec == ScanInit /\ [][ScanNext]_scan
-----------------------------------------------------------------------------
(* The scan finds the phrases that occur in the text, all and no others,   *)
(* also where one is part of another or overlaps it (core/trie.py, find).  *)
RulesThatOccurAreFound ==
    Scanned => matches = {p \in phrases : \E i \in 1..(Len(content) + 1 - Len(p)) :
                                              SubSeq(content, i, i + Len(p) - 1) = p}
=============================================================================
