---------------------------- MODULE NamespaceCase ----------------------------
(***************************************************************************)
(* namespaceCase of the raw guard: whether names inside a directory are told  *)
(* apart by case, found out from an entry that is already there.  Every       *)
(* system call is a step, and between two of them others create, remove,      *)
(* rename, link and write entries.  Two names are modelled, the same but for  *)
(* their case.                                                              *)
(*                                                                         *)
(* lstat tells the identity of an entry and when it last changed, an inode    *)
(* number of an entry that is gone is used again, and no two changes happen   *)
(* in the same nanosecond: `clock' counts them.                             *)
(***************************************************************************)
EXTENDS Naturals, FiniteSets

CONSTANT MaxChanges     \* bound on what others change while the guard looks

VARIABLES
  folds, keepsCase,   \* the namespace: case is folded; realpath keeps the case it was given
  entries,            \* the inode each stored name stands for, or 0
  inodes,             \* kind, links and last change of each inode
  dirChanged, clock,
  npc, visited, entryName,      \* the scan
  dirSeen, original, other,     \* what its first lstats returned
  spelled,                      \* the native path of the entry was its own
  namespace                     \* the result

treeVars == <<folds, keepsCase, entries, inodes, dirChanged, clock>>
scanVars == <<npc, visited, entryName, dirSeen, original, other, spelled, namespace>>
vars == <<treeVars, scanVars>>

Names == {"a", "A"}
Alternate(n) == IF n = "a" THEN "A" ELSE "a"
Inodes == 1..2
Gone == [ino |-> 0]

Found(n) ==        \* what looking a name up finds
  IF folds /\ entries[n] = 0 THEN entries[Alternate(n)] ELSE entries[n]
Lstat(n) ==
  LET i == Found(n) IN
  IF i = 0 THEN Gone
  ELSE [ino |-> i, kind |-> inodes[i].kind, links |-> inodes[i].links, changed |-> inodes[i].changed]
Realpath(n) ==
  IF Found(n) = 0 THEN "none" ELSE IF entries[n] # 0 \/ keepsCase THEN n ELSE Alternate(n)

Links(e, i) == Cardinality({n \in Names : e[n] = i})

Init ==
  /\ folds \in BOOLEAN /\ keepsCase \in BOOLEAN
  /\ entries \in [Names -> 0..2] /\ (folds => 0 \in {entries[n] : n \in Names})
  /\ \E kind \in [Inodes -> {"file", "directory", "link"}], more \in [Inodes -> 0..1] :
       /\ \A i \in Inodes : more[i] = 1 \/ Links(entries, i) = 2 => kind[i] = "file"
       /\ inodes = [i \in Inodes |-> [kind |-> kind[i], links |-> Links(entries, i) + more[i], changed |-> 0]]
  /\ dirChanged = 0 /\ clock = 0
  /\ npc = "before" /\ visited = {} /\ entryName = "none" /\ dirSeen = 0
  /\ original = Gone /\ other = Gone /\ spelled = FALSE /\ namespace = "none"

-----------------------------------------------------------------------------
(* The scan, one system call a step.                                       *)
Scanning(pc) == npc = pc /\ UNCHANGED treeVars
Ends(result) == npc' = "done" /\ namespace' = result
Unusable(stat) == stat.kind = "link" \/ (stat.kind = "file" /\ stat.links # 1)

Before ==
  /\ Scanning("before") /\ dirSeen' = dirChanged /\ npc' = "read"
  /\ UNCHANGED <<visited, entryName, original, other, spelled, namespace>>

Read ==
  /\ Scanning("read")
  /\ \/ \E n \in Names \ visited :
          /\ entries[n] # 0
          /\ visited' = visited \cup {n} /\ entryName' = n /\ npc' = "original"
          /\ UNCHANGED namespace
     \/ Ends("unknown") /\ UNCHANGED <<visited, entryName>>    \* no entry is left, or the bound is met
  /\ UNCHANGED <<dirSeen, original, other, spelled>>

Original ==
  /\ Scanning("original")
  /\ original' = Lstat(entryName)
  /\ CASE original' = Gone -> Ends("unknown")
       [] original' # Gone /\ Unusable(original') -> npc' = "read" /\ UNCHANGED namespace
       [] OTHER -> npc' = "other" /\ UNCHANGED namespace
  /\ UNCHANGED <<visited, entryName, dirSeen, other, spelled>>

OtherAtOnce ==     \* a mistake: a missing entry is an answer that needs no second look
  /\ Scanning("other")
  /\ other' = Lstat(Alternate(entryName))
  /\ IF other' = Gone THEN Ends("sensitive") ELSE npc' = "spelling" /\ UNCHANGED namespace
  /\ UNCHANGED <<visited, entryName, dirSeen, original, spelled>>

(* Another entry, or none, under the other spelling: the case counts.      *)
Other ==
  /\ Scanning("other")
  /\ other' = Lstat(Alternate(entryName))
  /\ CASE other' = Gone -> namespace' = "sensitive" /\ npc' = "recheck"
       [] other' # Gone /\ Unusable(other') -> namespace' = "unknown" /\ npc' = "recheck"
       [] other' # Gone /\ ~Unusable(other') /\ other'.ino # original.ino ->
            namespace' = "sensitive" /\ npc' = "recheck"
       [] OTHER -> npc' = "spelling" /\ UNCHANGED namespace
  /\ UNCHANGED <<visited, entryName, dirSeen, original, spelled>>

(* The same inode: an alias only if both spellings natively are this one.  *)
Spelling ==
  /\ Scanning("spelling") /\ spelled' = (Realpath(entryName) = entryName)
  /\ IF Realpath(entryName) = "none" THEN Ends("unknown")
     ELSE npc' = "alias" /\ UNCHANGED namespace
  /\ UNCHANGED <<visited, entryName, dirSeen, original, other>>

Alias ==
  /\ Scanning("alias")
  /\ IF Realpath(Alternate(entryName)) = "none" THEN Ends("unknown")
     ELSE /\ npc' = "recheck"
          /\ namespace' = IF spelled /\ Realpath(Alternate(entryName)) = entryName
                            THEN "insensitive" ELSE "unknown"
  /\ UNCHANGED <<visited, entryName, dirSeen, original, other, spelled>>

Recheck ==
  /\ Scanning("recheck")
  /\ CASE Lstat(entryName) = Gone -> Ends("unknown")
       [] Lstat(entryName) = original -> npc' = "other again" /\ UNCHANGED namespace
       [] OTHER -> npc' = "other again" /\ namespace' = "unknown"
  /\ UNCHANGED <<visited, entryName, dirSeen, original, other, spelled>>

OtherAgain ==
  /\ Scanning("other again") /\ npc' = "after"
  /\ namespace' = IF Lstat(Alternate(entryName)) = other THEN namespace ELSE "unknown"
  /\ UNCHANGED <<visited, entryName, dirSeen, original, other, spelled>>

After ==
  /\ Scanning("after")
  /\ Ends(IF dirChanged = dirSeen THEN namespace ELSE "unknown")
  /\ UNCHANGED <<visited, entryName, dirSeen, original, other, spelled>>

-----------------------------------------------------------------------------
(* The others.  A change of an entry's links or content stamps the inode,   *)
(* a change of the names the directory.                                    *)
Stamp(i, kind, links) == [inodes EXCEPT ![i] = [kind |-> kind, links |-> links, changed |-> clock']]
Renamed(e) == entries' = e /\ dirChanged' = clock'

Create(n) == /\ Found(n) = 0
             /\ \E i \in Inodes, kind \in {"file", "directory", "link"} :
                  inodes[i].links = 0 /\ Renamed([entries EXCEPT ![n] = i]) /\ inodes' = Stamp(i, kind, 1)
Remove(n) == /\ entries[n] # 0 /\ Renamed([entries EXCEPT ![n] = 0])
             /\ inodes' = Stamp(entries[n], inodes[entries[n]].kind, inodes[entries[n]].links - 1)
Rename(n) == /\ entries[n] # 0 /\ entries[Alternate(n)] = 0
             /\ Renamed([entries EXCEPT ![n] = 0, ![Alternate(n)] = entries[n]])
             /\ inodes' = Stamp(entries[n], inodes[entries[n]].kind, inodes[entries[n]].links)
Link(n) == /\ entries[n] # 0 /\ inodes[entries[n]].kind = "file"
           /\ \/ entries' = entries /\ UNCHANGED dirChanged        \* from elsewhere
              \/ ~folds /\ entries[Alternate(n)] = 0 /\ Renamed([entries EXCEPT ![Alternate(n)] = entries[n]])
           /\ inodes' = Stamp(entries[n], "file", inodes[entries[n]].links + 1)
Write(n) == /\ entries[n] # 0 /\ UNCHANGED <<entries, dirChanged>>
            /\ inodes' = Stamp(entries[n], inodes[entries[n]].kind, inodes[entries[n]].links)

Others ==
  /\ npc # "done" /\ clock < MaxChanges /\ clock' = clock + 1
  /\ \E n \in Names : Create(n) \/ Remove(n) \/ Rename(n) \/ Link(n) \/ Write(n)
  /\ UNCHANGED <<folds, keepsCase, scanVars>>

Next == Before \/ Read \/ Original \/ Other \/ Spelling \/ Alias \/ Recheck \/ OtherAgain \/ After \/ Others
Spec == Init /\ [][Next]_vars

-----------------------------------------------------------------------------
(* Whatever happens to the entries meanwhile, a verdict other than unknown   *)
(* is true of the directory.                                                *)
NamespaceTrue ==
  npc = "done" => namespace \in {"unknown", IF folds THEN "insensitive" ELSE "sensitive"}
=============================================================================
