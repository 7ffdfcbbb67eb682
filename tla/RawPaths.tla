------------------------------- MODULE RawPaths -------------------------------
(***************************************************************************)
(* canonical and containsRawPath of the raw guard: whether a target lies in   *)
(* a raw directory, for every spelling of both, where some namespaces fold    *)
(* case, where parts of a path do not exist yet, and where the native path    *)
(* keeps the case it was given.                                             *)
(*                                                                         *)
(* The tree is one of directories; a path is the sequence of its names below  *)
(* the working directory, and two names that differ in case only are enough.  *)
(* Symbolic links, `..' and hard-linked files are left out, and the tree does  *)
(* not change while it is looked at (NamespaceCase is about that).           *)
(***************************************************************************)
EXTENDS Naturals, Sequences, SequencesExt, FiniteSets, FiniteSetsExt

CONSTANT MaxLength       \* bound on the names of a path

VARIABLES
  tree,         \* the directories that exist, as they are spelled in their parents
  folding,      \* those whose namespace folds case
  retains,      \* realpath returns the case it was given
  rawDir, target    \* the two paths, as they are spelled

vars == <<tree, folding, retains, rawDir, target>>

Names == {"raw", "RAW"}
Paths == UNION {[1..n -> Names] : n \in 0..MaxLength}
Parent(p) == Front(p)

(* Folding is inherited by what is created below; a folding directory has   *)
(* one entry for both spellings.                                           *)
Trees == {T \in SUBSET (UNION {[1..n -> Names] : n \in 0..MaxLength - 1}) :
            <<>> \in T /\ \A p \in T \ {<<>>} : Parent(p) \in T}
WellFormed(T, F) ==
  \A p \in F : Cardinality({q \in T : q # <<>> /\ Parent(q) = p}) <= 1

Init ==
  /\ tree = {<<>>} /\ folding = {} /\ retains = FALSE /\ rawDir = <<>> /\ target = <<>>

Looks ==
  /\ rawDir = <<>>
  /\ tree' \in Trees /\ folding' \in SUBSET tree' /\ WellFormed(tree', folding')
  /\ retains' \in BOOLEAN
  /\ rawDir' \in Paths \ {<<>>} /\ rawDir'[1] = "raw"     \* the two names are alike
  /\ target' \in {p \in Paths : Len(p) >= Len(rawDir')}

Next == Looks
Spec == Init /\ [][Next]_vars

-----------------------------------------------------------------------------
(* Where a path leads: the directory its existing part is, and the rest.    *)
Fold(p) == [i \in DOMAIN p |-> "raw"]
Step(dir, name) ==       \* the entry of dir a name stands for, as it is stored
  LET hits == {q \in tree : q # <<>> /\ Parent(q) = dir /\ (Last(q) = name \/ dir \in folding)}
  IN IF Append(dir, name) \in hits THEN {Append(dir, name)} ELSE hits
Resolves[p \in Paths] ==     \* the directory at the end of p, none where there is none
  IF p = <<>> THEN {<<>>} ELSE UNION {Step(dir, Last(p)) : dir \in Resolves[Parent(p)]}

(* canonical: the longest prefix that realpath takes, spelled by it, and    *)
(* the names that are missing, as they were given.                         *)
Existing(p) == SubSeq(p, 1, Max({n \in 0..Len(p) : Resolves[SubSeq(p, 1, n)] # {}}))
Anchor(p) ==
  IF retains THEN Existing(p) ELSE CHOOSE dir \in Resolves[Existing(p)] : TRUE
Text(p) == Anchor(p) \o SubSeq(p, Len(Existing(p)) + 1, Len(p))

(* The evidence on a namespace, as NamespaceCase has it: an empty directory *)
(* has none.                                                               *)
CaseOf(anchor) ==
  LET dir == CHOOSE d \in Resolves[anchor] : TRUE
  IN IF \A q \in tree : q = <<>> \/ Parent(q) # dir THEN "unknown"
     ELSE IF dir \in folding THEN "insensitive" ELSE "sensitive"

ContainsPath(p, q) == IsPrefix(p, q)

(* The verdict of the namespace of `anchor' on names that differ by case.   *)
ByCase(anchor) ==
  CASE CaseOf(anchor) = "unknown" -> "unavailable"
    [] CaseOf(anchor) = "insensitive" -> "inside"
    [] OTHER -> "outside"

(* The two existing parts differ in spelling: they are compared as entries, *)
(* at the depth of the shorter.                                            *)
Diverging(root, goal) ==
  LET shorter == IF Len(Anchor(root)) <= Len(Anchor(goal)) THEN Anchor(root) ELSE Anchor(goal)
      longer == IF shorter = Anchor(root) THEN Anchor(goal) ELSE Anchor(root)
      respelled(p) == shorter \o SubSeq(Text(p), Len(shorter) + 1, Len(Text(p)))
  IN IF ~ContainsPath(Fold(shorter), Fold(longer)) THEN "outside"
     ELSE IF Resolves[shorter] # Resolves[SubSeq(longer, 1, Len(shorter))] THEN "outside"
     ELSE IF ContainsPath(respelled(root), respelled(goal)) THEN "inside"
     ELSE ByCase(shorter)

ContainsRawPathSpelled(root, goal) ==    \* a mistake: the path text alone decides
  IF ContainsPath(Text(root), Text(goal)) THEN "inside"
  ELSE IF ~ContainsPath(Fold(Text(root)), Fold(Text(goal))) THEN "outside" ELSE ByCase(<<>>)

ContainsRawPath(root, goal) ==
  IF ContainsPath(Text(root), Text(goal)) THEN "inside"
  ELSE IF ~ContainsPath(Fold(Text(root)), Fold(Text(goal))) THEN "outside"
  ELSE IF ContainsPath(Anchor(root), Anchor(goal)) THEN ByCase(Anchor(root))
  ELSE IF ContainsPath(Anchor(goal), Anchor(root)) THEN ByCase(Anchor(goal))
  ELSE Diverging(root, goal)

-----------------------------------------------------------------------------
(* What it would be to write at `goal': the directories of both paths are    *)
(* created where they are missing, in the namespace they are created in.     *)
Folds(p) == IF Resolves[p] # {} THEN Resolves[p] \subseteq folding
            ELSE Resolves[Existing(p)] \subseteq folding
Same(p, q, i) == p[i] = q[i] \/ Folds(SubSeq(p, 1, i - 1))
Inside(root, goal) ==
  /\ Len(root) <= Len(goal)
  /\ \A i \in 1..Len(root) :
       LET p == SubSeq(root, 1, i) q == SubSeq(goal, 1, i)
       IN IF Resolves[p] # {} \/ Resolves[q] # {} THEN Resolves[p] = Resolves[q]
          ELSE Same(root, goal, i)

(* The verdict is what the file system would make of the two paths, whatever *)
(* their case, or none is given.                                            *)
ContainmentTrue ==
  rawDir # <<>> =>
    ContainsRawPath(rawDir, target)
      \in {"unavailable", IF Inside(rawDir, target) THEN "inside" ELSE "outside"}
=============================================================================
