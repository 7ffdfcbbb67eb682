------------------------------- MODULE RunInput -------------------------------
(***************************************************************************)
(* The input of a run: prepareInput looks at the whole tree at once, and       *)
(* refuses one that holds anything but files and directories or that holds a    *)
(* directory the submission writes to; copyInput then copies what was found,    *)
(* entry after entry, while others may change the source or plant something     *)
(* in the copy (shud-input.ts).                                            *)
(***************************************************************************)
EXTENDS Naturals, Sequences, SequencesExt

CONSTANT MaxChanges              \* bounds what others do

Para == "para"                   \* <project>.cfg.para
Entries == {Para, "dir", "inner"}     \* of which the last is in the directory
Kinds == {"file", "dir", "link", "other"}
Written == {"runs", "stacks", "provenance", "state"}

VARIABLES
  tree,          \* what is at each path of the input
  within, linked,  \* the written directories that are in the input; that are links
  ipc, items,      \* where the submission is, what it found
  next, present,   \* the item to copy; what it was when looked at
  copied, planted, \* what is in the copy; what others put there
  changes

vars == <<tree, within, linked, ipc, items, next, present, copied, planted, changes>>

None == [kind |-> "none", by |-> "source"]
KindsAt(p) == IF p = "inner" THEN Kinds \cup {"none"}
              ELSE IF p = Para THEN {"file", "link", "none"} ELSE {"dir", "file", "link", "none"}

Init ==
  /\ tree \in {s \in [Entries -> Kinds \cup {"none"}] :
                   /\ \A p \in Entries : s[p] \in KindsAt(p)
                   /\ s["dir"] # "dir" => s["inner"] = "none"}
  /\ within \in {{}} \cup {{w} : w \in Written} /\ linked \in {{}} \cup {{w} : w \in Written}
  /\ ipc = "prepare" /\ items = <<>> /\ next = 1 /\ present = "none"
  /\ copied = [p \in Entries |-> None] /\ planted = {} /\ changes = 0

-----------------------------------------------------------------------------
(* A root that is a link is refused before its real place is asked for; the   *)
(* state directory is followed.                                            *)
Contained == within # {} \/ linked \ {"state"} # {}

(* visit: a directory before its entries, in the order of readdir.           *)
Visits == {<<Para>>, <<Para, "dir">>, <<"dir", Para>>, <<Para, "dir", "inner">>, <<"dir", "inner", Para>>}
Found(visit) == ToSet(visit) = {p \in Entries : tree[p] # "none"}
Safe == \A p \in Entries : tree[p] \in {"none", "file", "dir"}

PrepareInput ==
  /\ ipc = "prepare"
  /\ IF Contained \/ tree[Para] # "file" \/ ~Safe
     THEN ipc' = "refused" /\ UNCHANGED items
     ELSE /\ \E visit \in Visits :
               /\ Found(visit)
               /\ items' = [i \in DOMAIN visit |-> [path |-> visit[i], kind |-> tree[visit[i]]]]
          /\ ipc' = "look"
  /\ UNCHANGED <<tree, within, linked, next, present, copied, planted, changes>>

(* copyInput: the entry must be what it was, and its place free.             *)
Look ==
  /\ ipc = "look"
  /\ IF next > Len(items) THEN ipc' = "copied" /\ UNCHANGED present
     ELSE IF tree[items[next].path] # items[next].kind THEN ipc' = "failed" /\ UNCHANGED present
     ELSE ipc' = "put" /\ present' = tree[items[next].path]
  /\ UNCHANGED <<tree, within, linked, items, next, copied, planted, changes>>

(* What a copy reads is what is there by then, through a link if need be.     *)
Readable(p) == tree[p] \in {"file", "link"}
Place(p, replaces) ==
  /\ ipc = "put"
  /\ \/ /\ replaces \/ copied[p] = None
        /\ present = "dir" \/ Readable(p)
        /\ copied' = [copied EXCEPT ![p] = [kind |-> present, by |-> "source"]]
        /\ next' = next + 1 /\ ipc' = "look"
     \/ ipc' = "failed" /\ UNCHANGED <<copied, next>>       \* the place is taken, or the call fails
  /\ UNCHANGED <<tree, within, linked, items, present, planted, changes>>

PutOver == ipc = "put" /\ Place(items[next].path, TRUE)    \* mutant of Put: without COPYFILE_EXCL
Put == ipc = "put" /\ Place(items[next].path, FALSE)

-----------------------------------------------------------------------------
Change(p) ==
  /\ changes < MaxChanges /\ changes' = changes + 1
  /\ \/ /\ tree' \in {[tree EXCEPT ![p] = k] : k \in KindsAt(p) \ {tree[p]}}
        /\ p = "inner" => tree["dir"] = "dir"
        /\ p = "dir" => tree["inner"] = "none"
        /\ UNCHANGED <<copied, planted>>
     \/ /\ copied[p] = None /\ (p = "inner" => copied["dir"].kind = "dir") /\ planted' = planted \cup {p}
        /\ copied' = [copied EXCEPT ![p] = [kind |-> "file", by |-> "other"]]
        /\ UNCHANGED tree
  /\ ipc \in {"look", "put"}
  /\ UNCHANGED <<within, linked, ipc, items, next, present>>

Next == PrepareInput \/ Look \/ Put \/ \E p \in Entries : Change(p)

Spec == Init /\ [][Next]_vars

-----------------------------------------------------------------------------
(* A copy that succeeded is the tree that was looked at: each of its entries    *)
(* under its kind and from the tree, a directory before what is in it, and   *)
(* nothing that somebody else put there was replaced; and the input holds no    *)
(* directory the submission writes to.                                     *)
CopyFaithful ==
  /\ \A p \in planted : copied[p].by = "other"
  /\ ipc = "copied" =>
       /\ within = {}
       /\ \A p \in Entries :
            IF \E i \in DOMAIN items : items[i].path = p
            THEN copied[p] = [kind |-> (CHOOSE i \in {items[j] : j \in DOMAIN items} : i.path = p).kind,
                            by |-> "source"]
            ELSE copied[p] = None \/ p \in planted
       /\ copied["inner"].by = "source" /\ copied["inner"] # None => copied["dir"].kind = "dir"
=============================================================================
