------------------------------ MODULE Provenance ------------------------------
(***************************************************************************)
(* generateProvenance: the files of the prepared input of a run, and of the   *)
(* forcing files its manifest names those that lie outside of it, each with   *)
(* its hash.  Files are read one after the other, in chunks as they come, and *)
(* between two chunks somebody else may write, add or remove files.           *)
(*                                                                         *)
(* The manifest is a text over two symbols, "a" and the end of a line.  Its   *)
(* first line counts the stations by its length, the second is the forcing    *)
(* directory, the third the header of one column; every later line that is    *)
(* not blank names the file of one station.  `kinds' says what a path is; the  *)
(* content of a file is a number.                                          *)
(***************************************************************************)
EXTENDS Naturals, Sequences, SequencesExt, FiniteSets

CONSTANTS InputFiles,        \* the paths below the copy of the input
          MaxText,           \* bound on the symbols of the manifest
          MaxStations,       \* bound on the length of a reference
          MaxMeddles         \* bound on what others do meanwhile

VARIABLES
  text, kinds, content,      \* the disk
  ppc, walked,               \* the walk of the input, and what is in its inventory
  offset, fragment, lines,   \* the manifest: what is read, the unfinished line, the lines
  hashing, external,         \* the external files checked, and those that are hashed
  opened,                    \* the files that are open
  meddles

diskVars == <<text, kinds, content>>
vars == <<diskVars, ppc, walked, offset, fragment, lines, hashing, external, opened, meddles>>

References == 1..MaxStations      \* a reference is named by its length
Kinds == {"file", "directory", "other", "absent"}
Eol == "eol"
Texts == UNION {[1..n -> {"a", Eol}] : n \in 0..MaxText}

Init ==
  /\ text \in Texts
  /\ kinds \in [InputFiles \cup References -> {"file", "other"}]
  /\ content = [p \in InputFiles \cup References |-> 0]
  /\ ppc = "walk" /\ walked = {} /\ offset = 0 /\ fragment = <<>> /\ lines = <<>>
  /\ hashing = {} /\ external = {} /\ opened = {} /\ meddles = MaxMeddles

Fails == ppc' = "failed" /\ opened' = {}
Hashed(p, n) == [path |-> p, hash |-> n]
PathsOf(inventory) == {h.path : h \in inventory}

-----------------------------------------------------------------------------
(* inventory: a file is opened, read to its end and closed before the next. *)
Open(p) ==
  /\ opened = {}
  /\ IF kinds[p] = "file" THEN opened' = {p} /\ UNCHANGED ppc ELSE Fails

WalkOpen ==
  /\ ppc = "walk"
  /\ \E p \in InputFiles \ PathsOf(walked) : kinds[p] # "absent" /\ Open(p)
  /\ UNCHANGED <<diskVars, walked, offset, fragment, lines, hashing, external, meddles>>

WalkHashed ==
  /\ ppc = "walk" /\ opened # {} /\ opened' = {}
  /\ walked' = walked \cup {Hashed(p, content[p]) : p \in opened}
  /\ UNCHANGED <<diskVars, ppc, offset, fragment, lines, hashing, external, meddles>>

Walked ==
  /\ ppc = "walk" /\ opened = {}
  /\ \A p \in InputFiles : kinds[p] = "absent" \/ p \in PathsOf(walked)
  /\ ppc' = "manifest"
  /\ UNCHANGED <<diskVars, walked, offset, fragment, lines, hashing, external, opened, meddles>>

-----------------------------------------------------------------------------
(* readForcingManifest: consumeText of one chunk, which joins the unfinished *)
(* line of the chunk before.                                                *)
Joined(rest, chunk) ==         \* the lines the chunk ends, and what is left
  FoldLeft(LAMBDA acc, c :
             IF c = Eol THEN [done |-> Append(acc.done, acc.rest), rest |-> <<>>]
             ELSE [acc EXCEPT !.rest = Append(@, c)],
           [done |-> <<>>, rest |-> rest], chunk)

ReadChunkApart(n) ==           \* a mistake: a line ends where its chunk ends
  /\ ppc = "manifest" /\ n \in offset + 1..Len(text) /\ offset' = n
  /\ LET all == Joined(<<>>, SubSeq(text, offset + 1, n))
     IN lines' = lines \o all.done \o (IF all.rest = <<>> THEN <<>> ELSE <<all.rest>>)
  /\ UNCHANGED <<diskVars, ppc, walked, fragment, hashing, external, opened, meddles>>

ReadChunk(n) ==
  /\ ppc = "manifest" /\ n \in offset + 1..Len(text) /\ offset' = n
  /\ LET all == Joined(fragment, SubSeq(text, offset + 1, n))
     IN lines' = lines \o all.done /\ fragment' = all.rest
  /\ UNCHANGED <<diskVars, ppc, walked, hashing, external, opened, meddles>>

(* What consumeLine makes of the lines, and the end of the manifest.        *)
RowsOf(ls) == SelectSeq(SubSeq(ls, 4, Len(ls)), LAMBDA l : l # <<>>)
InOrder(ls) ==
  /\ Len(ls) >= 3 /\ ls[1] # <<>> /\ ls[2] # <<>> /\ ls[3] # <<>>
  /\ Len(RowsOf(ls)) = Len(ls[1])
Named(ls) == {Len(row) : row \in ToSet(RowsOf(ls))}

(* Every reference is looked at before any is opened; one that lies in the   *)
(* copy is in the inventory already: those are the ones of length one.       *)
Outside(references) == references \ {1}

ManifestEnd ==
  /\ ppc = "manifest" /\ offset = Len(text)
  /\ LET all == lines \o (IF fragment = <<>> THEN <<>> ELSE <<fragment>>)
     IN IF InOrder(all) /\ \A r \in Named(all) : r \in References /\ kinds[r] = "file"
          THEN /\ ppc' = "external" /\ hashing' = Outside(Named(all)) /\ lines' = all
               /\ UNCHANGED opened
          ELSE Fails /\ UNCHANGED <<hashing, lines>>
  /\ UNCHANGED <<diskVars, walked, offset, fragment, external, meddles>>

ForcingOpen ==
  /\ ppc = "external"
  /\ \E r \in hashing \ PathsOf(external) :
       /\ \A q \in hashing \ PathsOf(external) : r <= q        \* in the order of the paths
       /\ Open(r)
  /\ UNCHANGED <<diskVars, walked, offset, fragment, lines, hashing, external, meddles>>

ForcingHashed ==
  /\ ppc = "external" /\ opened # {} /\ opened' = {}
  /\ external' = external \cup {Hashed(r, content[r]) : r \in opened}
  /\ UNCHANGED <<diskVars, ppc, walked, offset, fragment, lines, hashing, meddles>>

(* createDataProvenance, when all has succeeded.                            *)
Recorded ==
  /\ ppc = "external" /\ opened = {} /\ PathsOf(external) = hashing /\ ppc' = "recorded"
  /\ UNCHANGED <<diskVars, walked, offset, fragment, lines, hashing, external, opened, meddles>>

(* Others write, remove or replace files; a read may fail.                  *)
Meddles ==
  /\ ppc \in {"walk", "manifest", "external"} /\ meddles > 0 /\ meddles' = meddles - 1
  /\ \E p \in DOMAIN kinds :
       \/ content' = [content EXCEPT ![p] = @ + 1] /\ UNCHANGED kinds
       \/ \E k \in Kinds : kinds' = [kinds EXCEPT ![p] = k] /\ UNCHANGED content
  /\ UNCHANGED <<text, ppc, walked, offset, fragment, lines, hashing, external, opened>>

ReadFails ==
  /\ (ppc = "manifest" \/ opened # {}) /\ Fails
  /\ UNCHANGED <<diskVars, walked, offset, fragment, lines, hashing, external, meddles>>

Next == \/ WalkOpen \/ WalkHashed \/ Walked \/ ManifestEnd \/ ForcingOpen \/ ForcingHashed
        \/ Recorded \/ Meddles \/ ReadFails
        \/ \E n \in 1..MaxText : ReadChunk(n)
Spec == Init /\ [][Next]_vars

-----------------------------------------------------------------------------
(* However the chunks fall, what is recorded is what the manifest says: as   *)
(* many rows as it counts, and the files they name outside the copy, all      *)
(* hashed and no other.  One file is open at a time, and a file nobody        *)
(* touched meanwhile is recorded as it is.                                  *)
LinesOf(s) == LET all == Joined(<<>>, s)
              IN all.done \o (IF all.rest = <<>> THEN <<>> ELSE <<all.rest>>)
RecordsManifest ==
  /\ Cardinality(opened) <= 1
  /\ ppc = "recorded" =>
       /\ InOrder(LinesOf(text)) /\ PathsOf(external) = Outside(Named(LinesOf(text)))
       /\ \A h \in walked \cup external : content[h.path] = 0 => h.hash = 0
       /\ meddles = MaxMeddles => PathsOf(walked) = InputFiles
=============================================================================
