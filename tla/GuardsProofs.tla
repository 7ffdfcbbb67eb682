---------------------------- MODULE GuardsProofs ----------------------------
(***************************************************************************)
(* Proofs about what stands between an agent and an effect: the role presets, *)
(* the coder's approval policy and the two gates a tool call passes           *)
(* (MCGuards), and the first-task gate, which answers the approvals of a       *)
(* whole run of the system and judges it (FirstTask).                         *)
(*                                                                         *)
(* Whichever order the host calls back in, each agent carries the mask of its *)
(* role; the plugin writes policies only in a log that is its own to write;   *)
(* a call runs only when the raw guard and the policy gate both let it, or    *)
(* the user was asked; and what the guard finds out of a namespace is true.   *)
(* These parts share no variable, so each has an inductive invariant of its   *)
(* own: MasksInv, PoliciesInv, ToolsInv, CasesInv.  The masks need the most:  *)
(* the host may call back while a restrict call is under way, so the stack    *)
(* holds any number of unfinished calls, and what they will do when they      *)
(* return is part of what an agent carries.                                 *)
(*                                                                         *)
(* FirstTask is a program of its own and shares nothing with them.  TaskInv    *)
(* ties the logs to what happened, the connection to what was posted on it,   *)
(* and each phase of the clean-up to what the ones before it have made sure of. *)
(***************************************************************************)
EXTENDS MCGuards, FirstTask, FiniteSetTheorems, SequenceTheorems,
        WellFoundedInduction, TLAPS


------------------------------------------------------------------------------
(* The masks of the roles (RoleRestrict).                                  *)

(* The frames a stack of calls can hold.                                  *)
Frames ==
  [op : {"restrict"}, agent : Agents, mask : Masks!Mask, prior : Masks!Mask \cup {Masks!None}]
  \cup {Masks!Releasing}
  \cup [op : {"select"}, session : Sessions, seen : SUBSET Agents]

(* The calls of restrict for an agent that have not returned.              *)
Unreturned(st, a) == {i \in 1..Len(st) : st[i].op = "restrict" /\ st[i].agent = a}
Installed(st, a) == {st[i].mask : i \in Unreturned(st, a)}

(* What an agent carries: m its masks, h what its binding holds, r the       *)
(* revision of the binding.                                                *)
Carries(st, a, m, h, r, bound) ==
  /\ m = ({h} \ {Masks!None}) \cup Installed(st, a)
  /\ h # Masks!None => h.by \in 1..r /\ h.role # "unknown"
  /\ \A i \in Unreturned(st, a) :
       /\ st[i].mask.by \in 1..r /\ st[i].mask.role # "unknown"
       /\ h # Masks!None => st[i].mask.by # h.by
       /\ st[i].mask.by = r => a \in bound /\ st[i].prior = h
       /\ \A j \in Unreturned(st, a) : st[j].mask.by = st[i].mask.by => j = i
  /\ a \notin bound => h = Masks!None

(* What makes the mask of an agent that of its role, now or later.         *)
Awaited(st, a) ==
  \E i \in 1..Len(st) : st[i].op = "select" /\ st[i].session = SessionOf[a] /\ a \notin st[i].seen
Due(st, a, role, h, r) ==
  \/ Awaited(st, a)
  \/ \E i \in Unreturned(st, a) : st[i].mask.by = r /\ st[i].mask.role = role
  \/ /\ \A i \in Unreturned(st, a) : st[i].mask.by # r
     /\ h.role = IF role = "unknown" THEN "none" ELSE role

(* A call enters: one frame more on the stack.                            *)
LEMMA PushFrame ==
  ASSUME NEW st \in Seq(Frames), NEW f \in Frames, NEW a \in Agents
  PROVE  /\ Append(st, f) \in Seq(Frames) /\ Append(st, f) # <<>>
         /\ Len(st) \in Nat /\ Len(Append(st, f)) = Len(st) + 1
         /\ \A i \in 1..Len(st) : Append(st, f)[i] = st[i]
         /\ Append(st, f)[Len(st) + 1] = f
         /\ Unreturned(Append(st, f), a) =
              Unreturned(st, a) \cup (IF f.op = "restrict" /\ f.agent = a THEN {Len(st) + 1} ELSE {})
         /\ Installed(Append(st, f), a) =
              Installed(st, a) \cup (IF f.op = "restrict" /\ f.agent = a THEN {f.mask} ELSE {})
<1> DEFINE n == Len(st)
           s2 == Append(st, f)
<1>1. /\ s2 \in Seq(Frames) /\ n \in Nat /\ Len(s2) = n + 1
      /\ \A i \in 1..n : s2[i] = st[i]
      /\ s2[n + 1] = f /\ s2 # <<>>
  BY AppendProperties, LenProperties
<1> HIDE DEF s2
<1>2. Unreturned(s2, a) = Unreturned(st, a) \cup (IF f.op = "restrict" /\ f.agent = a THEN {n + 1} ELSE {})
  <2>1. \A i : i \in 1..n + 1 <=> i \in 1..n \/ i = n + 1 BY <1>1
  <2>2. QED BY <1>1, <2>1 DEF Unreturned
<1>3. \A i \in Unreturned(st, a) : s2[i] = st[i]
  BY <1>1 DEF Unreturned
<1>4. Installed(s2, a) = Installed(st, a) \cup (IF f.op = "restrict" /\ f.agent = a THEN {f.mask} ELSE {})
  BY <1>1, <1>2, <1>3 DEF Installed
<1>5. QED BY <1>1, <1>2, <1>4 DEF s2

(* A call returns: the stack without its last frame.                      *)
LEMMA PopFrame ==
  ASSUME NEW st \in Seq(Frames), st # <<>>
  PROVE  /\ Masks!Front(st) \in Seq(Frames) /\ st[Len(st)] \in Frames
         /\ st = Append(Masks!Front(st), st[Len(st)])
<1>1. Len(st) \in Nat \ {0} /\ st[Len(st)] \in Frames
  BY EmptySeq, LenProperties
<1>2. Masks!Front(st) = SubSeq(st, 1, Len(st) - 1)
  BY DEF Masks!Front
<1>3. /\ Masks!Front(st) \in Seq(Frames) /\ Len(Masks!Front(st)) = Len(st) - 1
      /\ \A i \in 1..Len(st) - 1 : Masks!Front(st)[i] = st[i]
  <2>1. \A i \in 1..Len(st) - 1 : st[i] \in Frames BY <1>1
  <2> DEFINE b == SubSeq(st, 1, Len(st) - 1)
  <2>2. /\ b \in Seq(Frames)
        /\ Len(b) = IF 1 =< Len(st) - 1 THEN Len(st) - 1 - 1 + 1 ELSE 0
        /\ \A i \in 1..Len(st) - 1 - 1 + 1 : b[i] = st[1 + i - 1]
    BY <1>1, <2>1, SubSeqProperties
  <2> HIDE DEF b
  <2> DEFINE l == Len(st)
  <2>3. Len(b) = l - 1 /\ \A i \in 1..l - 1 : b[i] = st[i]
    <3>1. l \in Nat \ {0} BY <1>1
    <3>2. /\ Len(b) = IF 1 =< l - 1 THEN l - 1 - 1 + 1 ELSE 0
          /\ \A i \in 1..l - 1 - 1 + 1 : b[i] = st[1 + i - 1]
      BY <2>2
    <3> HIDE DEF l
    <3>3. \A i \in 1..l - 1 : 1 + i - 1 = i /\ i \in 1..l - 1 - 1 + 1 BY <3>1
    <3>4. Len(b) = l - 1 BY <3>1, <3>2
    <3>5. ASSUME NEW i \in 1..l - 1 PROVE b[i] = st[i]
      <4>1. b[i] = st[1 + i - 1] BY <3>2, <3>3
      <4>2. QED BY <3>3, <4>1
    <3>6. QED BY <3>4, <3>5
  <2>4. QED BY <1>2, <2>2, <2>3 DEF b
<1>4. st = Append(Masks!Front(st), st[Len(st)])
  <2> DEFINE b == Masks!Front(st)
  <2>1. /\ Append(b, st[Len(st)]) \in Seq(Frames) /\ Len(Append(b, st[Len(st)])) = Len(st)
        /\ \A i \in 1..Len(st) - 1 : Append(b, st[Len(st)])[i] = st[i]
        /\ Append(b, st[Len(st)])[Len(st)] = st[Len(st)]
    <3> HIDE DEF b
    <3> QED BY <1>1, <1>3, AppendProperties DEF b
  <2> HIDE DEF b
  <2>2. \A i \in 1..Len(st) : Append(b, st[Len(st)])[i] = st[i]
    BY <1>1, <2>1
  <2>3. QED BY <2>1, <2>2, SeqEqual DEF b
<1>5. QED BY <1>1, <1>3, <1>4

(* A frame that is not a restrict call of the agent changes nothing of what the*)
(* agent carries; a walk over its session makes its mask due.             *)
LEMMA OtherFrame ==
  ASSUME NEW st \in Seq(Frames), NEW f \in Frames, NEW a \in Agents,
         ~(f.op = "restrict" /\ f.agent = a), NEW m, NEW h, NEW r, NEW bound, NEW role
  PROVE  /\ Carries(Append(st, f), a, m, h, r, bound) <=> Carries(st, a, m, h, r, bound)
         /\ Due(st, a, role, h, r) => Due(Append(st, f), a, role, h, r)
         /\ Due(Append(st, f), a, role, h, r) =>
              \/ Due(st, a, role, h, r)
              \/ (f.op = "select" /\ f.session = SessionOf[a] /\ a \notin f.seen)
         /\ f.op = "select" /\ f.session = SessionOf[a] /\ a \notin f.seen =>
              Due(Append(st, f), a, role, h, r)
<1> DEFINE s2 == Append(st, f)
<1>1. /\ Unreturned(s2, a) = Unreturned(st, a) /\ Installed(s2, a) = Installed(st, a)
      /\ Len(st) \in Nat /\ Len(s2) = Len(st) + 1
      /\ \A i \in 1..Len(st) : s2[i] = st[i]
      /\ s2[Len(st) + 1] = f
  <2>1. /\ Unreturned(s2, a) = Unreturned(st, a) \cup (IF f.op = "restrict" /\ f.agent = a THEN {Len(st) + 1} ELSE {})
        /\ Installed(s2, a) = Installed(st, a) \cup (IF f.op = "restrict" /\ f.agent = a THEN {f.mask} ELSE {})
    BY PushFrame
  <2>2. Unreturned(s2, a) = Unreturned(st, a) /\ Installed(s2, a) = Installed(st, a)
    BY <2>1
  <2>3. QED BY <2>2, PushFrame
<1>2. \A i \in Unreturned(st, a) : s2[i] = st[i] BY <1>1 DEF Unreturned
<1> HIDE DEF s2
<1>3. Carries(s2, a, m, h, r, bound) <=> Carries(st, a, m, h, r, bound)
  BY <1>1, <1>2 DEF Carries
<1>4. Awaited(s2, a) <=> Awaited(st, a) \/ (f.op = "select" /\ f.session = SessionOf[a] /\ a \notin f.seen)
  <2>1. \A i : i \in 1..Len(s2) <=> i \in 1..Len(st) \/ i = Len(st) + 1 BY <1>1
  <2>2. ASSUME NEW i \in 1..Len(st), st[i].op = "select", st[i].session = SessionOf[a], a \notin st[i].seen
        PROVE  Awaited(s2, a)
    BY <1>1, <2>1, <2>2 DEF Awaited
  <2>3. ASSUME f.op = "select", f.session = SessionOf[a], a \notin f.seen PROVE Awaited(s2, a)
    BY <1>1, <2>1, <2>3 DEF Awaited
  <2>4. ASSUME NEW i \in 1..Len(s2), s2[i].op = "select", s2[i].session = SessionOf[a], a \notin s2[i].seen
        PROVE  Awaited(st, a) \/ (f.op = "select" /\ f.session = SessionOf[a] /\ a \notin f.seen)
    <3>1. CASE i \in 1..Len(st)
      <4>1. s2[i] = st[i] BY <1>1, <3>1
      <4>2. Awaited(st, a) BY <2>4, <3>1, <4>1 DEF Awaited
      <4>3. QED BY <4>2
    <3>2. CASE i = Len(st) + 1 BY <1>1, <2>4, <3>2
    <3>3. QED BY <2>1, <3>1, <3>2
  <2>5. QED BY <2>2, <2>3, <2>4 DEF Awaited
<1>5. Due(s2, a, role, h, r) <=> Due(st, a, role, h, r) \/ Awaited(s2, a)
  <2>1. (\E i \in Unreturned(s2, a) : s2[i].mask.by = r /\ s2[i].mask.role = role)
          <=> (\E i \in Unreturned(st, a) : st[i].mask.by = r /\ st[i].mask.role = role)
    BY <1>1, <1>2
  <2>2. (\A i \in Unreturned(s2, a) : s2[i].mask.by # r) <=> (\A i \in Unreturned(st, a) : st[i].mask.by # r)
    BY <1>1, <1>2
  <2>3. Awaited(st, a) => Awaited(s2, a) BY <1>4
  <2> HIDE DEF Awaited
  <2>4. QED BY <2>1, <2>2, <2>3 DEF Due
<1>6. Awaited(st, a) => Due(st, a, role, h, r) BY DEF Due
<1>7. QED BY <1>3, <1>4, <1>5, <1>6 DEF s2

(* A restrict call of the agent installs a mask of the next revision, which is*)
(* then due.                                                              *)
LEMMA OwnFrame ==
  ASSUME NEW st \in Seq(Frames), NEW a \in Agents, NEW m, NEW r \in Nat, NEW bound,
         NEW h \in Masks!Mask \cup {Masks!None},
         Carries(st, a, m, h, r, bound),
         NEW k \in Masks!Mask, k.by = r + 1, k.role # "unknown"
  PROVE  LET f == Masks!Binding(a, k, h)
         IN /\ f \in Frames /\ Append(st, f) \in Seq(Frames)
            /\ Carries(Append(st, f), a, m \cup {k}, h, r + 1, bound \cup {a})
            /\ Due(Append(st, f), a, k.role, h, r + 1)
<1> DEFINE f == Masks!Binding(a, k, h)
           s2 == Append(st, f)
<1>1. f \in Frames /\ f.op = "restrict" /\ f.agent = a /\ f.mask = k /\ f.prior = h
  BY DEF Frames, Masks!Binding
<1> HIDE DEF f
<1>2. /\ s2 \in Seq(Frames) /\ Len(st) \in Nat
      /\ Unreturned(s2, a) = Unreturned(st, a) \cup {Len(st) + 1}
      /\ Installed(s2, a) = Installed(st, a) \cup {k}
      /\ \A i \in 1..Len(st) : s2[i] = st[i]
      /\ s2[Len(st) + 1] = f
  BY <1>1, PushFrame
<1> HIDE DEF s2
<1>3. \A i \in Unreturned(st, a) : s2[i] = st[i] /\ i \in 1..Len(st) BY <1>2 DEF Unreturned
<1>4. k \in [role : Roles, by : Nat] BY DEF Masks!Mask
<1>5. Carries(s2, a, m \cup {k}, h, r + 1, bound \cup {a})
  <2>1. m \cup {k} = ({h} \ {Masks!None}) \cup Installed(s2, a)
    BY <1>2 DEF Carries
  <2>2. h # Masks!None => h.by \in 1..r /\ h.role # "unknown" BY DEF Carries
  <2>3. ASSUME NEW i \in Unreturned(s2, a)
        PROVE  /\ s2[i].mask.by \in 1..r + 1 /\ s2[i].mask.role # "unknown"
               /\ h # Masks!None => s2[i].mask.by # h.by
               /\ s2[i].mask.by = r + 1 => a \in bound \cup {a} /\ s2[i].prior = h
               /\ \A j \in Unreturned(s2, a) : s2[j].mask.by = s2[i].mask.by => j = i
    <3>1. \A j \in Unreturned(st, a) : s2[j].mask.by \in 1..r
      BY <1>3 DEF Carries
    <3>2. CASE i = Len(st) + 1
      <4>1. s2[i].mask = k /\ s2[i].prior = h BY <1>1, <1>2, <3>2
      <4>2. \A j \in Unreturned(s2, a) : s2[j].mask.by = s2[i].mask.by => j = i
        BY <1>2, <3>1, <3>2, <4>1
      <4>3. QED BY <2>2, <4>1, <4>2
    <3>3. CASE i \in Unreturned(st, a)
      <4>1. s2[i] = st[i] /\ s2[i].mask.by \in 1..r BY <1>3, <3>1, <3>3
      <4>2. st[i].mask.role # "unknown" /\ (h # Masks!None => st[i].mask.by # h.by)
        BY <3>3 DEF Carries
      <4>3. ASSUME NEW j \in Unreturned(s2, a), s2[j].mask.by = s2[i].mask.by PROVE j = i
        <5>1. CASE j = Len(st) + 1
          <6>1. s2[j].mask.by = r + 1 BY <1>1, <1>2, <5>1
          <6>2. QED BY <4>1, <4>3, <6>1
        <5>2. CASE j \in Unreturned(st, a)
          <6>1. st[j].mask.by = st[i].mask.by BY <1>3, <3>3, <4>3, <5>2
          <6>2. QED BY <3>3, <5>2, <6>1 DEF Carries
        <5>3. QED BY <1>2, <5>1, <5>2
      <4>4. QED BY <4>1, <4>2, <4>3
    <3>4. QED BY <1>2, <3>2, <3>3
  <2>4. QED BY <2>1, <2>2, <2>3 DEF Carries
<1>6. Due(s2, a, k.role, h, r + 1)
  <2>1. Len(st) + 1 \in Unreturned(s2, a) /\ s2[Len(st) + 1].mask = k BY <1>1, <1>2
  <2>2. QED BY <2>1 DEF Due
<1>7. QED BY <1>1, <1>2, <1>5, <1>6 DEF s2, f

(* The restrict call returns: its mask is held when the binding has not moved*)
(* on, and given back when it has.                                        *)
LEMMA FrameReturns ==
  ASSUME NEW st \in Seq(Frames), NEW f \in Frames, NEW a \in Agents,
         f.op = "restrict", f.agent = a,
         NEW m, NEW r \in Nat, NEW bound, NEW h \in Masks!Mask \cup {Masks!None}, NEW role,
         Carries(Append(st, f), a, m, h, r, bound)
  PROVE  /\ f.mask \in Masks!Mask
         /\ f.mask.by = r =>
              /\ Carries(st, a, m \ {f.prior}, f.mask, r, bound) /\ a \in bound
              /\ Due(Append(st, f), a, role, h, r) => Due(st, a, role, f.mask, r)
         /\ f.mask.by # r =>
              /\ Carries(st, a, m \ {f.mask}, h, r, bound)
              /\ Due(Append(st, f), a, role, h, r) => Due(st, a, role, h, r)
<1> DEFINE s2 == Append(st, f)
           n == Len(st) + 1
<1>1. /\ s2 \in Seq(Frames) /\ Len(st) \in Nat /\ Len(s2) = n
      /\ Unreturned(s2, a) = Unreturned(st, a) \cup {n}
      /\ Installed(s2, a) = Installed(st, a) \cup {f.mask}
      /\ \A i \in 1..Len(st) : s2[i] = st[i]
      /\ s2[n] = f
  BY PushFrame
<1>2. n \notin Unreturned(st, a) BY <1>1 DEF Unreturned
<1>3. \A i \in Unreturned(st, a) : s2[i] = st[i] /\ i \in 1..Len(st) BY <1>1 DEF Unreturned
<1>4. f.mask \in Masks!Mask /\ f.mask \in [role : Roles, by : Nat]
  BY DEF Frames, Masks!Releasing, Masks!Mask
<1>5. Carries(s2, a, m, h, r, bound) OBVIOUS
<1> HIDE DEF s2, n
<1>6. /\ f.mask.by \in 1..r /\ f.mask.role # "unknown"
      /\ h # Masks!None => f.mask.by # h.by
      /\ f.mask.by = r => a \in bound /\ f.prior = h
      /\ \A i \in Unreturned(st, a) : st[i].mask.by # f.mask.by
  BY <1>1, <1>2, <1>3, <1>5 DEF Carries
<1>7. /\ m = ({h} \ {Masks!None}) \cup Installed(st, a) \cup {f.mask}
      /\ f.mask \notin Installed(st, a)
  BY <1>1, <1>5, <1>6, ZenonT(60) DEF Carries, Installed
<1>8. \A i \in Unreturned(st, a) :
        /\ st[i].mask.by \in 1..r /\ st[i].mask.role # "unknown"
        /\ h # Masks!None => st[i].mask.by # h.by
        /\ st[i].mask.by = r => a \in bound /\ st[i].prior = h
        /\ \A j \in Unreturned(st, a) : st[j].mask.by = st[i].mask.by => j = i
  BY <1>1, <1>3, <1>5 DEF Carries
<1>9. /\ h # Masks!None => h.by \in 1..r /\ h.role # "unknown"
      /\ a \notin bound => h = Masks!None
  BY <1>5 DEF Carries
<1>10. Masks!None.by = 0 /\ f.mask # Masks!None
  BY <1>6 DEF Masks!None
<1>11. \A i \in Unreturned(st, a) : st[i].mask # Masks!None
  BY <1>8, <1>10
<1>12. h \notin Installed(st, a) /\ f.mask # h
  BY <1>6, <1>8, <1>10, <1>11 DEF Installed
<1>13. Awaited(s2, a) <=> Awaited(st, a)
  <2>1. \A i : i \in 1..n <=> i \in 1..Len(st) \/ i = n BY <1>1 DEF n
  <2>2. QED BY <1>1, <2>1 DEF Awaited
<1>14. ASSUME f.mask.by = r
       PROVE  /\ Carries(st, a, m \ {f.prior}, f.mask, r, bound) /\ a \in bound
              /\ Due(s2, a, role, h, r) => Due(st, a, role, f.mask, r)
  <2>1. m \ {h} = {f.mask} \cup Installed(st, a) BY <1>7, <1>12, <1>11 DEF Installed
  <2>2. \A i \in Unreturned(st, a) : st[i].mask.by # r BY <1>6, <1>14
  <2>3. Carries(st, a, m \ {f.prior}, f.mask, r, bound)
    BY <1>6, <1>8, <1>10, <1>14, <2>1, <2>2 DEF Carries
  <2>4. ASSUME Due(s2, a, role, h, r), ~Awaited(st, a)
        PROVE  f.mask.role = IF role = "unknown" THEN "none" ELSE role
    <3>1. n \in Unreturned(s2, a) /\ s2[n].mask.by = r BY <1>1, <1>14
    <3>2. PICK i \in Unreturned(s2, a) : s2[i].mask.by = r /\ s2[i].mask.role = role
      BY <1>13, <2>4, <3>1 DEF Due
    <3>3. i = n BY <1>1, <1>3, <2>2, <3>2
    <3>4. f.mask.role = role BY <1>1, <3>2, <3>3
    <3>5. QED BY <1>6, <3>4
  <2>5. Due(s2, a, role, h, r) => Due(st, a, role, f.mask, r)
    BY <2>2, <2>4 DEF Due
  <2>6. QED BY <1>6, <1>14, <2>3, <2>5
<1>15. ASSUME f.mask.by # r
       PROVE  /\ Carries(st, a, m \ {f.mask}, h, r, bound)
              /\ Due(s2, a, role, h, r) => Due(st, a, role, h, r)
  <2>1. m \ {f.mask} = ({h} \ {Masks!None}) \cup Installed(st, a) BY <1>7, <1>12
  <2>2. Carries(st, a, m \ {f.mask}, h, r, bound) BY <1>8, <1>9, <2>1 DEF Carries
  <2>3. Due(s2, a, role, h, r) => Due(st, a, role, h, r)
    BY <1>1, <1>3, <1>13, <1>15 DEF Due
  <2>4. QED BY <2>2, <2>3
<1>16. QED BY <1>4, <1>14, <1>15 DEF s2

(* A revision more of the binding, by keeping its mask or by giving it back.*)
LEMMA Rebound ==
  ASSUME NEW st \in Seq(Frames), NEW a \in Agents, NEW m, NEW r \in Nat, NEW bound,
         NEW h \in Masks!Mask \cup {Masks!None}, Carries(st, a, m, h, r, bound)
  PROVE  /\ Carries(st, a, m, h, r + 1, bound \cup {a})
         /\ h.role # "unknown" /\ Due(st, a, h.role, h, r + 1)
         /\ \A any : Carries(st, a, m \ {h}, Masks!None, r + 1, any)
         /\ Due(st, a, "unknown", Masks!None, r + 1)
<1>1. \A i \in Unreturned(st, a) : st[i].mask.by # r + 1 /\ st[i].mask.by \in 1..r + 1
  BY DEF Carries
<1>2. Masks!None.by = 0 /\ Masks!None.role = "none" BY DEF Masks!None
<1>3. Carries(st, a, m, h, r + 1, bound \cup {a})
  BY <1>1 DEF Carries
<1>4. h.role # "unknown" BY <1>2 DEF Carries
<1>5. \A i \in Unreturned(st, a) : st[i].mask # h /\ st[i].mask # Masks!None
  BY <1>2 DEF Carries
<1>6. m \ {h} = Installed(st, a) BY <1>5 DEF Carries, Installed
<1>7. \A any : Carries(st, a, m \ {h}, Masks!None, r + 1, any)
  BY <1>1, <1>6 DEF Carries
<1>8. QED BY <1>1, <1>2, <1>3, <1>4, <1>7 DEF Due

(* A binding that holds no mask has none to give back.                    *)
LEMMA NothingHeld ==
  ASSUME NEW st \in Seq(Frames), NEW a \in Agents, NEW m, NEW r \in Nat, NEW bound,
         Carries(st, a, m, Masks!None, r, bound)
  PROVE  m \ {Masks!None} = m
<1>1. Masks!None.by = 0 BY DEF Masks!None
<1>2. \A i \in Unreturned(st, a) : st[i].mask # Masks!None BY <1>1 DEF Carries
<1>3. QED BY <1>2 DEF Carries, Installed

(* Giving back a mask calls out, on top of calls that keep what is said of them.*)
LEMMA ReleaseFrame ==
  ASSUME NEW st \in Seq(Frames), NEW mask
  PROVE  LET st2 == IF mask = Masks!None THEN st ELSE Append(st, Masks!Releasing)
         IN /\ st2 \in Seq(Frames)
            /\ \A b \in Agents : \A m, h, r, bound, role :
                 /\ Carries(st, b, m, h, r, bound) => Carries(st2, b, m, h, r, bound)
                 /\ Due(st, b, role, h, r) => Due(st2, b, role, h, r)
<1>1. Masks!Releasing \in Frames /\ Masks!Releasing.op = "release"
  BY DEF Frames, Masks!Releasing
<1>2. Append(st, Masks!Releasing) \in Seq(Frames) BY <1>1, AppendProperties
<1>3. \A b \in Agents : \A m, h, r, bound, role :
        /\ Carries(st, b, m, h, r, bound) => Carries(Append(st, Masks!Releasing), b, m, h, r, bound)
        /\ Due(st, b, role, h, r) => Due(Append(st, Masks!Releasing), b, role, h, r)
  BY <1>1, OtherFrame
<1>4. QED BY <1>2, <1>3

(* Which other agents are bound says nothing of this one.                 *)
LEMMA BoundElsewhere ==
  ASSUME NEW st, NEW a, NEW m, NEW h, NEW r, NEW bound, NEW bound2,
         Carries(st, a, m, h, r, bound), a \in bound <=> a \in bound2
  PROVE  Carries(st, a, m, h, r, bound2)
BY DEF Carries

(* The types of what the plugin keeps.                                    *)
MasksTyped ==
  /\ preset \in [Sessions -> Roles \cup {"unknown"}]
  /\ masks \in [Agents -> SUBSET Masks!Mask]
  /\ held \in [Agents -> Masks!Mask \cup {Masks!None}]
  /\ revision \in [Agents -> Nat]
  /\ stack \in Seq(Frames) /\ tracked \subseteq Agents

(* The inductive invariant of the masks: each agent carries the mask its binding*)
(* holds and those of its restrict calls under way, and the mask its role asks for*)
(* is in force, is being installed or will be when the walk reaches it.   *)
MasksInv ==
  /\ MasksTyped
  /\ \A a \in Agents : Carries(stack, a, masks[a], held[a], revision[a], tracked)
  /\ \A a \in tracked \ outdated : Due(stack, a, preset[SessionOf[a]], held[a], revision[a])
  /\ active \/ tracked = {}

(* The invariant is enough.                                               *)
LEMMA MasksKeep == MasksInv => MasksInForce
<1> SUFFICES ASSUME MasksInv PROVE MasksInForce
  OBVIOUS
<1>1. ASSUME NEW a \in Agents
      PROVE  Carries(stack, a, masks[a], held[a], revision[a], tracked)
  BY DEF MasksInv
<1>2. Masks!InForce
  BY <1>1 DEF MasksInv, MasksTyped, Masks!InForce, Carries
<1>3. ASSUME stack = <<>>, NEW a \in Agents
      PROVE  /\ masks[a] = {held[a]} \ {Masks!None}
             /\ a \notin tracked => masks[a] = {}
             /\ a \in tracked \ outdated =>
                  held[a].role = IF Masks!RoleOf(a) = "unknown" THEN "none" ELSE Masks!RoleOf(a)
  <2>1. Unreturned(stack, a) = {} /\ ~Awaited(stack, a) BY <1>3 DEF Unreturned, Awaited
  <2>2. masks[a] = {held[a]} \ {Masks!None} /\ (a \notin tracked => held[a] = Masks!None)
    BY <1>1, <2>1 DEF Carries, Installed
  <2>3. a \in tracked \ outdated => Due(stack, a, preset[SessionOf[a]], held[a], revision[a])
    BY DEF MasksInv
  <2>4. QED BY <2>1, <2>2, <2>3 DEF Due, Masks!RoleOf
<1>4. Masks!AtRest BY <1>3 DEF Masks!AtRest
<1>5. QED BY <1>2, <1>4 DEF MasksInForce

(* It holds at the start.                                                 *)
LEMMA MasksInit == Masks!Init => MasksInv
<1> SUFFICES ASSUME Masks!Init PROVE MasksInv
  OBVIOUS
<1>1. MasksTyped
  BY EmptySeq DEF Masks!Init, MasksTyped
<1>2. \A a \in Agents : Unreturned(stack, a) = {} /\ Installed(stack, a) = {}
  BY DEF Masks!Init, Unreturned, Installed
<1>3. \A a \in Agents : Carries(stack, a, masks[a], held[a], revision[a], tracked)
  BY <1>2 DEF Masks!Init, Carries
<1>4. QED BY <1>1, <1>3 DEF MasksInv, Masks!Init

(* Binding an agent, on top of calls that keep what is said of them.        *)
LEMMA BindStep ==
  ASSUME MasksInv, NEW st \in Seq(Frames), NEW a \in Agents, Masks!Bind(a, st),
         UNCHANGED preset, tracked' = tracked \cup {a},
         \A b \in Agents : Carries(st, b, masks[b], held[b], revision[b], tracked),
         \A b \in (tracked \ outdated) \ {a} :
            Due(st, b, preset[SessionOf[b]], held[b], revision[b]),
         st # <<>> /\ Masks!Last(st).op = "select" =>
            a \in tracked /\ Masks!Last(st).session = SessionOf[a],
         active'
  PROVE  MasksInv'
<1> DEFINE h == held[a]
           r == revision[a]
           role == preset[SessionOf[a]]
<1>1. /\ h \in Masks!Mask \cup {Masks!None} /\ r \in Nat /\ role \in Roles \cup {"unknown"}
      /\ masks[a] \in SUBSET Masks!Mask /\ MasksTyped /\ role = Masks!RoleOf(a)
  BY SessionAssumption DEF MasksInv, MasksTyped, Masks!RoleOf
<1>2. revision' = [revision EXCEPT ![a] = r + 1] /\ revision'[a] = r + 1
      /\ revision' \in [Agents -> Nat]
      /\ \A b \in Agents \ {a} : revision'[b] = revision[b]
  BY <1>1 DEF Masks!Bind, MasksTyped
<1>3. /\ Carries(st, a, masks[a], h, r + 1, tracked \cup {a})
      /\ h.role # "unknown" /\ Due(st, a, h.role, h, r + 1)
      /\ \A any : Carries(st, a, masks[a] \ {h}, Masks!None, r + 1, any)
      /\ Due(st, a, "unknown", Masks!None, r + 1)
  <2> DEFINE m == masks[a]
  <2>1. Carries(st, a, m, h, r, tracked) OBVIOUS
  <2> HIDE DEF m, h, r
  <2>2. QED BY <1>1, <2>1, Rebound DEF m
<1>4. ASSUME NEW b \in Agents \ {a}
      PROVE  Carries(st, b, masks[b], held[b], revision[b], tracked')
  BY <1>4 DEF Carries
<1> HIDE DEF h, r, role
<1>5. ASSUME NEW st2 \in Seq(Frames), NEW m \in SUBSET Masks!Mask,
             NEW k \in Masks!Mask \cup {Masks!None},
             stack' = st2, masks' = [masks EXCEPT ![a] = m], held' = [held EXCEPT ![a] = k],
             Carries(st2, a, m, k, r + 1, tracked'),
             \A b \in Agents \ {a} :
               /\ Carries(st2, b, masks[b], held[b], revision[b], tracked')
               /\ b \in tracked \ outdated' => Due(st2, b, preset[SessionOf[b]], held[b], revision[b]),
             a \notin outdated' => Due(st2, a, role, k, r + 1)
      PROVE  MasksInv'
  <2>1. masks'[a] = m /\ held'[a] = k /\ \A b \in Agents \ {a} : masks'[b] = masks[b] /\ held'[b] = held[b]
    BY <1>1, <1>5 DEF MasksTyped
  <2>2. MasksTyped' BY <1>1, <1>2, <1>5 DEF MasksTyped
  <2>3. ASSUME NEW b \in Agents PROVE Carries(stack', b, masks'[b], held'[b], revision'[b], tracked')
    BY <1>2, <1>5, <2>1
  <2>4. ASSUME NEW b \in tracked' \ outdated'
        PROVE  Due(stack', b, preset'[SessionOf[b]], held'[b], revision'[b])
    <3>1. CASE b = a BY <1>2, <1>5, <2>1, <2>4, <3>1 DEF role
    <3>2. CASE b # a
      <4>1. b \in Agents \ {a} /\ b \in tracked \ outdated' BY <1>1, <2>4, <3>2 DEF MasksTyped
      <4>2. QED BY <1>2, <1>5, <2>1, <4>1
    <3>3. QED BY <3>1, <3>2
  <2>5. QED BY <2>2, <2>3, <2>4 DEF MasksInv
<1>6. CASE Masks!Unbind(a, st)
  <2> DEFINE m == masks[a] \ {h}
  <2>1. /\ role = "unknown" /\ outdated' = outdated \ {a}
        /\ held' = [held EXCEPT ![a] = Masks!None] /\ masks' = [masks EXCEPT ![a] = m]
        /\ stack' = IF h = Masks!None THEN st ELSE Append(st, Masks!Releasing)
    BY <1>1, <1>6 DEF Masks!Unbind, Masks!Drop, h, MasksTyped
  <2>2. PICK st2 \in Seq(Frames) :
          /\ stack' = st2
          /\ \A b \in Agents : \A mm, k, n, bound, ro :
               /\ Carries(st, b, mm, k, n, bound) => Carries(st2, b, mm, k, n, bound)
               /\ Due(st, b, ro, k, n) => Due(st2, b, ro, k, n)
    BY <2>1, ReleaseFrame
  <2>3. Carries(st2, a, m, Masks!None, r + 1, tracked') BY <1>3, <2>2 DEF h, r
  <2>4. Due(st2, a, role, Masks!None, r + 1) BY <1>3, <2>1, <2>2 DEF h, r
  <2>5. \A b \in Agents \ {a} :
          /\ Carries(st2, b, masks[b], held[b], revision[b], tracked')
          /\ b \in tracked \ outdated' => Due(st2, b, preset[SessionOf[b]], held[b], revision[b])
    BY <1>4, <2>1, <2>2
  <2>6. m \in SUBSET Masks!Mask BY <1>1
  <2> HIDE DEF m
  <2>7. QED BY <1>5, <2>1, <2>2, <2>3, <2>4, <2>5, <2>6
<1>7. CASE Masks!Keep(a, st)
  <2>1. /\ role = h.role /\ outdated' = outdated \ {a} /\ stack' = st
        /\ masks' = masks /\ held' = held
    BY <1>1, <1>7 DEF Masks!Keep, h
  <2>2. masks' = [masks EXCEPT ![a] = masks[a]] /\ held' = [held EXCEPT ![a] = h]
    BY <1>1, <2>1 DEF MasksTyped, h
  <2>3. Carries(st, a, masks[a], h, r + 1, tracked') /\ Due(st, a, role, h, r + 1)
    BY <1>3, <2>1 DEF h, r
  <2>4. \A b \in Agents \ {a} :
          /\ Carries(st, b, masks[b], held[b], revision[b], tracked')
          /\ b \in tracked \ outdated' => Due(st, b, preset[SessionOf[b]], held[b], revision[b])
    BY <1>4, <2>1
  <2>5. QED BY <1>1, <1>5, <2>1, <2>2, <2>3, <2>4
<1>8. CASE Masks!Replace(a, st)
  <2> DEFINE k == [role |-> role, by |-> r + 1]
             f == Masks!Binding(a, k, h)
             st2 == Append(st, f)
             m == masks[a] \cup {k}
  <2>1. /\ role # "unknown" /\ outdated' = outdated \ {a} /\ stack' = st2
        /\ masks' = [masks EXCEPT ![a] = m] /\ held' = held
    BY <1>1, <1>2, <1>8 DEF Masks!Replace, h, MasksTyped
  <2>2. k \in Masks!Mask /\ k.by = r + 1 /\ k.role = role
    BY <1>1, <2>1 DEF Masks!Mask
  <2> HIDE DEF k
  <2>3. f \in Frames /\ st2 \in Seq(Frames) /\ f.op = "restrict" /\ f.agent = a
        /\ Carries(st2, a, m, h, r + 1, tracked') /\ Due(st2, a, role, h, r + 1)
    <3>1. Carries(st, a, masks[a], h, r, tracked) BY DEF h, r
    <3> DEFINE mm == masks[a]
    <3> HIDE DEF mm
    <3>2. /\ f \in Frames /\ st2 \in Seq(Frames)
          /\ Carries(st2, a, mm \cup {k}, h, r + 1, tracked \cup {a})
          /\ Due(st2, a, k.role, h, r + 1)
      BY <1>1, <2>1, <2>2, <3>1, OwnFrame DEF mm
    <3>3. f.op = "restrict" /\ f.agent = a BY DEF Masks!Binding
    <3>4. QED BY <2>2, <3>2, <3>3 DEF mm
  <2> HIDE DEF f
  <2>4. \A b \in Agents \ {a} :
          /\ Carries(st2, b, masks[b], held[b], revision[b], tracked')
          /\ b \in tracked \ outdated' => Due(st2, b, preset[SessionOf[b]], held[b], revision[b])
    BY <1>4, <2>1, <2>3, OtherFrame
  <2>5. held' = [held EXCEPT ![a] = h] BY <1>1, <2>1 DEF MasksTyped, h
  <2>6. m \in SUBSET Masks!Mask BY <1>1, <2>2
  <2> HIDE DEF m, st2
  <2>7. QED BY <1>1, <1>5, <2>1, <2>3, <2>4, <2>5, <2>6
<1>9. CASE Masks!Refused(a, st)
  <2>1. masks' = masks /\ held' = held
    BY <1>9 DEF Masks!Refused
  <2>2. masks' = [masks EXCEPT ![a] = masks[a]] /\ held' = [held EXCEPT ![a] = h]
    BY <1>1, <2>1 DEF MasksTyped, h
  <2>3. CASE ~(st # <<>> /\ Masks!Last(st).op = "select")
    <3>1. stack' = st /\ outdated' = outdated \cup {a} BY <1>9, <2>3 DEF Masks!Refused
    <3>2. Carries(st, a, masks[a], h, r + 1, tracked') BY <1>3 DEF h, r
    <3>3. \A b \in Agents \ {a} :
            /\ Carries(st, b, masks[b], held[b], revision[b], tracked')
            /\ b \in tracked \ outdated' => Due(st, b, preset[SessionOf[b]], held[b], revision[b])
      BY <1>4, <3>1
    <3>4. QED BY <1>1, <1>5, <2>2, <3>1, <3>2, <3>3
  <2>4. CASE st # <<>> /\ Masks!Last(st).op = "select"
    <3> DEFINE st2 == Masks!Front(st)
               f == st[Len(st)]
    <3>1. /\ st2 \in Seq(Frames) /\ f \in Frames /\ st = Append(st2, f) /\ f = Masks!Last(st)
      BY <2>4, PopFrame DEF Masks!Last
    <3>2. /\ stack' = st2
          /\ outdated' = outdated \cup ({b \in tracked : SessionOf[b] = SessionOf[a]} \ (f.seen \ {a}))
      BY <1>9, <2>4, <3>1 DEF Masks!Refused
    <3>3. f.op = "select" /\ f.session = SessionOf[a] /\ a \in tracked
      BY <2>4, <3>1
    <3> HIDE DEF st2, f
    <3>4. ASSUME NEW b \in Agents, NEW mm, NEW k, NEW n, NEW bound, NEW ro
          PROVE  /\ Carries(st, b, mm, k, n, bound) => Carries(st2, b, mm, k, n, bound)
                 /\ Due(st, b, ro, k, n) =>
                      Due(st2, b, ro, k, n) \/ (f.session = SessionOf[b] /\ b \notin f.seen)
      BY <3>1, <3>3, OtherFrame
    <3>5. Carries(st2, a, masks[a], h, r + 1, tracked') BY <1>3, <3>4 DEF h, r
    <3>6. a \in outdated' BY <3>2, <3>3
    <3>7. \A b \in Agents \ {a} :
            /\ Carries(st2, b, masks[b], held[b], revision[b], tracked')
            /\ b \in tracked \ outdated' => Due(st2, b, preset[SessionOf[b]], held[b], revision[b])
      BY <1>4, <3>2, <3>3, <3>4
    <3>8. QED BY <1>1, <1>5, <2>2, <3>1, <3>2, <3>5, <3>6, <3>7
  <2>5. QED BY <2>3, <2>4
<1>10. QED BY <1>6, <1>7, <1>8, <1>9 DEF Masks!Bind

(* Every callback of the host, and every call that returns, keeps it.     *)
LEMMA MasksStep ==
  ASSUME MasksInv, Masks!Next \/ UNCHANGED maskVars
  PROVE  MasksInv'
<1>0. /\ MasksTyped
      /\ \A a \in Agents : Carries(stack, a, masks[a], held[a], revision[a], tracked)
      /\ \A a \in tracked \ outdated : Due(stack, a, preset[SessionOf[a]], held[a], revision[a])
      /\ active \/ tracked = {}
  BY DEF MasksInv
<1>1. ASSUME UNCHANGED <<preset, masks, active, tracked, revision, held, stack, outdated>>
      PROVE  MasksInv'
  BY <1>0, <1>1 DEF MasksInv, MasksTyped
<1>2. ASSUME NEW a \in Agents, Masks!Created(a) PROVE MasksInv'
  <2>1. CASE ~active
    <3>1. UNCHANGED <<preset, masks, active, tracked, revision, held, stack, outdated>>
      BY <1>2, <2>1 DEF Masks!Created, Masks!bindingVars
    <3>2. QED BY <1>1, <3>1
  <2>2. CASE active
    <3>1. /\ tracked' = tracked \cup {a} /\ Masks!Bind(a, stack) /\ preset' = preset /\ active'
          /\ stack # <<>> => Masks!Top.op \in {"restrict", "release"}
      BY <1>2, <2>2 DEF Masks!Created, Masks!Event
    <3>2. ~(stack # <<>> /\ Masks!Last(stack).op = "select")
      BY <3>1 DEF Masks!Top, Masks!Last
    <3>3. \A b \in (tracked \ outdated) \ {a} : Due(stack, b, preset[SessionOf[b]], held[b], revision[b])
      BY <1>0
    <3> DEFINE st == stack
    <3>4. st \in Seq(Frames) BY <1>0 DEF MasksTyped
    <3>5. QED BY <1>0, <3>1, <3>2, <3>3, <3>4, BindStep
  <2>3. QED BY <2>1, <2>2
<1>3. ASSUME NEW a \in Agents, Masks!Disposed(a) PROVE MasksInv'
  <2>1. CASE a \notin tracked
    <3>1. UNCHANGED <<preset, masks, active, tracked, revision, held, stack, outdated>>
      BY <1>3, <2>1 DEF Masks!Disposed, Masks!bindingVars
    <3>2. QED BY <1>1, <3>1
  <2>2. CASE a \in tracked
    <3> DEFINE h == held[a]
               m == masks[a]
               r == revision[a]
    <3>1. /\ tracked' = tracked \ {a} /\ revision' = [revision EXCEPT ![a] = r + 1]
          /\ held' = [held EXCEPT ![a] = Masks!None] /\ masks' = [masks EXCEPT ![a] = m \ {h}]
          /\ stack' = IF h = Masks!None THEN stack ELSE Append(stack, Masks!Releasing)
          /\ preset' = preset /\ outdated' = outdated /\ active' = active
      BY <1>0, <1>3, <2>2 DEF Masks!Disposed, Masks!Drop, MasksTyped
    <3>2. /\ h \in Masks!Mask \cup {Masks!None} /\ m \in SUBSET Masks!Mask /\ r \in Nat
      BY <1>0 DEF MasksTyped
    <3>3. Carries(stack, a, m, h, r, tracked) BY <1>0
    <3> HIDE DEF h, m, r
    <3>4. PICK st2 \in Seq(Frames) :
            /\ stack' = st2
            /\ \A b \in Agents : \A mm, k, n, bound, ro :
                 /\ Carries(stack, b, mm, k, n, bound) => Carries(st2, b, mm, k, n, bound)
                 /\ Due(stack, b, ro, k, n) => Due(st2, b, ro, k, n)
      BY <1>0, <3>1, ReleaseFrame DEF MasksTyped
    <3>5. Carries(st2, a, m \ {h}, Masks!None, r + 1, tracked')
      BY <1>0, <3>2, <3>3, <3>4, Rebound DEF MasksTyped
    <3>6. MasksTyped'
      BY <1>0, <3>1, <3>2, <3>4 DEF MasksTyped
    <3>7. /\ masks'[a] = m \ {h} /\ held'[a] = Masks!None /\ revision'[a] = r + 1
          /\ \A b \in Agents \ {a} : masks'[b] = masks[b] /\ held'[b] = held[b] /\ revision'[b] = revision[b]
      BY <1>0, <3>1 DEF MasksTyped
    <3>8. ASSUME NEW b \in Agents PROVE Carries(stack', b, masks'[b], held'[b], revision'[b], tracked')
      <4>1. CASE b = a BY <3>4, <3>5, <3>7, <4>1
      <4>2. CASE b # a
        <5>1. Carries(st2, b, masks[b], held[b], revision[b], tracked) BY <1>0, <3>4
        <5>2. b \in tracked <=> b \in tracked' BY <3>1, <4>2
        <5>3. Carries(st2, b, masks[b], held[b], revision[b], tracked') BY <5>1, <5>2, BoundElsewhere
        <5>4. QED BY <3>4, <3>7, <4>2, <5>3
      <4>3. QED BY <4>1, <4>2
    <3>9. ASSUME NEW b \in tracked' \ outdated'
          PROVE  Due(stack', b, preset'[SessionOf[b]], held'[b], revision'[b])
      <4>1. b \in tracked \ outdated /\ b # a /\ b \in Agents BY <1>0, <3>1 DEF MasksTyped
      <4>2. Due(stack, b, preset[SessionOf[b]], held[b], revision[b]) BY <1>0, <4>1
      <4>3. Due(st2, b, preset[SessionOf[b]], held[b], revision[b]) BY <3>4, <4>1, <4>2
      <4>4. preset' = preset /\ held'[b] = held[b] /\ revision'[b] = revision[b]
        BY <3>1, <3>7, <4>1
      <4>5. QED BY <3>4, <4>3, <4>4
    <3>10. active' \/ tracked' = {} BY <1>0, <3>1
    <3>11. QED BY <3>6, <3>8, <3>9, <3>10 DEF MasksInv
  <2>3. QED BY <2>1, <2>2
<1>4. ASSUME NEW n \in Sessions, Masks!Selected(n) PROVE MasksInv'
  <2>1. PICK role \in Roles \cup {"unknown"} : preset' = [preset EXCEPT ![n] = role]
    BY <1>4 DEF Masks!Selected
  <2>2. /\ stack' = IF active THEN Append(stack, Masks!Selecting(n)) ELSE stack
        /\ UNCHANGED <<masks, active, tracked, revision, held, outdated>>
    BY <1>4 DEF Masks!Selected, Masks!bindingVars
  <2> DEFINE f == Masks!Selecting(n)
  <2>3. f \in Frames /\ f.op = "select" /\ f.session = n /\ f.seen = {}
    BY DEF Masks!Selecting, Frames
  <2> HIDE DEF f
  <2>4. stack' \in Seq(Frames)
    BY <1>0, <2>2, <2>3, AppendProperties DEF MasksTyped, f
  <2>5. MasksTyped' BY <1>0, <2>1, <2>2, <2>4 DEF MasksTyped
  <2>6. ASSUME NEW b \in Agents PROVE Carries(stack', b, masks'[b], held'[b], revision'[b], tracked')
    <3>1. Carries(Append(stack, f), b, masks[b], held[b], revision[b], tracked)
      <4> DEFINE m == masks[b]
                 h == held[b]
                 r == revision[b]
      <4>1. Carries(stack, b, m, h, r, tracked) BY <1>0
      <4> HIDE DEF m, h, r
      <4>2. Carries(Append(stack, f), b, m, h, r, tracked)
        BY <1>0, <2>3, <4>1, OtherFrame DEF MasksTyped
      <4>3. QED BY <4>2 DEF m, h, r
    <3>2. QED BY <1>0, <2>2, <3>1 DEF f
  <2>7. ASSUME NEW b \in tracked' \ outdated'
        PROVE  Due(stack', b, preset'[SessionOf[b]], held'[b], revision'[b])
    <3>1. b \in tracked \ outdated /\ b \in Agents /\ active BY <1>0, <2>2, <2>7 DEF MasksTyped
    <3>2. stack' = Append(stack, f) BY <2>2, <3>1 DEF f
    <3> DEFINE h == held[b]
               r == revision[b]
    <3>3. /\ SessionOf[b] = n => \A ro : Due(Append(stack, f), b, ro, h, r)
          /\ \A ro : Due(stack, b, ro, h, r) => Due(Append(stack, f), b, ro, h, r)
      <4> HIDE DEF h, r
      <4> QED BY <1>0, <2>3, <3>1, OtherFrame DEF MasksTyped
    <3>4. CASE SessionOf[b] = n BY <2>2, <3>2, <3>3, <3>4
    <3>5. CASE SessionOf[b] # n
      <4>1. preset'[SessionOf[b]] = preset[SessionOf[b]]
        BY <1>0, <2>1, <3>1, <3>5, SessionAssumption DEF MasksTyped
      <4>2. Due(stack, b, preset[SessionOf[b]], h, r) BY <1>0, <3>1
      <4>3. QED BY <2>2, <3>2, <3>3, <4>1, <4>2
    <3>6. QED BY <3>4, <3>5
  <2>8. QED BY <1>0, <2>2, <2>5, <2>6, <2>7 DEF MasksInv
<1>5. CASE Masks!WalkOn
  <2> DEFINE st == Masks!Front(stack)
             f == stack[Len(stack)]
             left == {a \in tracked : SessionOf[a] = f.session} \ f.seen
  <2>1. /\ stack # <<>> /\ f.op = "select" /\ UNCHANGED <<preset, active, tracked>>
        /\ IF left = {} THEN stack' = st /\ UNCHANGED <<masks, revision, held, outdated>>
           ELSE \E a \in left : Masks!Bind(a, Append(st, [f EXCEPT !.seen = @ \cup {a}]))
    BY <1>5 DEF Masks!WalkOn, Masks!Top, Masks!Below
  <2>2. st \in Seq(Frames) /\ f \in Frames /\ stack = Append(st, f)
    BY <1>0, <2>1, PopFrame DEF MasksTyped
  <2> HIDE DEF st, f
  <2>3. ASSUME NEW b \in Agents, NEW m, NEW h, NEW r, NEW bound, NEW role
        PROVE  /\ Carries(stack, b, m, h, r, bound) => Carries(st, b, m, h, r, bound)
               /\ Due(stack, b, role, h, r) =>
                    Due(st, b, role, h, r) \/ (f.session = SessionOf[b] /\ b \notin f.seen)
    BY <2>1, <2>2, OtherFrame
  <2>4. CASE left = {}
    <3>1. stack' = st /\ UNCHANGED <<preset, active, tracked, masks, revision, held, outdated>>
      BY <2>1, <2>4
    <3>2. MasksTyped' BY <1>0, <2>2, <3>1 DEF MasksTyped
    <3>3. \A b \in Agents : Carries(st, b, masks[b], held[b], revision[b], tracked)
      BY <1>0, <2>3
    <3>4. \A b \in tracked \ outdated : Due(st, b, preset[SessionOf[b]], held[b], revision[b])
      BY <1>0, <2>3, <2>4 DEF MasksTyped
    <3>5. QED BY <1>0, <3>1, <3>2, <3>3, <3>4 DEF MasksInv
  <2>5. CASE left # {}
    <3>1. PICK a \in left : Masks!Bind(a, Append(st, [f EXCEPT !.seen = @ \cup {a}]))
      BY <2>1, <2>5
    <3>2. a \in tracked /\ a \in Agents /\ SessionOf[a] = f.session BY <1>0, <3>1 DEF MasksTyped
    <3> DEFINE g == [f EXCEPT !.seen = @ \cup {a}]
               rest == Append(st, g)
    <3>3. /\ g \in Frames /\ g.op = "select" /\ g.session = f.session /\ g.seen = f.seen \cup {a}
      BY <2>1, <2>2, <3>2 DEF Frames, Masks!Releasing
    <3> HIDE DEF g
    <3>4. rest \in Seq(Frames) /\ Masks!Last(rest) = g
      BY <2>2, <3>3, AppendProperties, LenProperties DEF Masks!Last
    <3>5. ASSUME NEW b \in Agents, NEW m, NEW h, NEW r, NEW bound, NEW role
          PROVE  /\ Carries(stack, b, m, h, r, bound) => Carries(rest, b, m, h, r, bound)
                 /\ b # a /\ Due(stack, b, role, h, r) => Due(rest, b, role, h, r)
      BY <2>2, <2>3, <3>3, OtherFrame
    <3>6. \A b \in Agents : Carries(rest, b, masks[b], held[b], revision[b], tracked)
      BY <1>0, <3>5
    <3>7. \A b \in (tracked \ outdated) \ {a} : Due(rest, b, preset[SessionOf[b]], held[b], revision[b])
      BY <1>0, <3>5 DEF MasksTyped
    <3>8. tracked' = tracked \cup {a} /\ preset' = preset BY <2>1, <3>2
    <3>9. active' BY <1>0, <2>1, <3>2
    <3>10. Masks!Bind(a, rest) BY <3>1 DEF g
    <3>11. Masks!Last(rest).session = SessionOf[a] BY <3>2, <3>3, <3>4
    <3> HIDE DEF rest
    <3>12. QED BY <3>2, <3>4, <3>6, <3>7, <3>8, <3>9, <3>10, <3>11, BindStep
  <2>6. QED BY <2>4, <2>5
<1>6. CASE Masks!Restricted
  <2> DEFINE st == Masks!Front(stack)
             f == stack[Len(stack)]
             a == f.agent
             h == held[a]
             m == masks[a]
             r == revision[a]
  <2>1. /\ stack # <<>> /\ f.op = "restrict" /\ UNCHANGED <<preset, active, tracked, revision, outdated>>
        /\ IF Masks!Latest(a, f.mask)
             THEN held' = [held EXCEPT ![a] = f.mask] /\ Masks!Drop(a, f.prior, st)
             ELSE Masks!Drop(a, f.mask, st) /\ UNCHANGED held
    BY <1>6 DEF Masks!Restricted, Masks!Top, Masks!Below
  <2>2. st \in Seq(Frames) /\ f \in Frames /\ stack = Append(st, f)
    BY <1>0, <2>1, PopFrame DEF MasksTyped
  <2> HIDE DEF st, f
  <2>3. a \in Agents BY <2>1, <2>2 DEF Frames, Masks!Releasing
  <2> HIDE DEF a
  <2>4. h \in Masks!Mask \cup {Masks!None} /\ m \in SUBSET Masks!Mask /\ r \in Nat
    BY <1>0, <2>3 DEF MasksTyped
  <2>5. Carries(stack, a, m, h, r, tracked) BY <1>0, <2>3
  <2>6. ASSUME NEW role
        PROVE  /\ f.mask \in Masks!Mask
               /\ f.mask.by = r =>
                    /\ Carries(st, a, m \ {f.prior}, f.mask, r, tracked) /\ a \in tracked
                    /\ Due(stack, a, role, h, r) => Due(st, a, role, f.mask, r)
               /\ f.mask.by # r =>
                    /\ Carries(st, a, m \ {f.mask}, h, r, tracked)
                    /\ Due(stack, a, role, h, r) => Due(st, a, role, h, r)
    <3> HIDE DEF h, m, r
    <3> QED BY <2>1, <2>2, <2>3, <2>4, <2>5, FrameReturns DEF a
  <2>7. ASSUME NEW b \in Agents \ {a}, NEW mm, NEW k, NEW n, NEW bound, NEW ro
        PROVE  /\ Carries(stack, b, mm, k, n, bound) => Carries(st, b, mm, k, n, bound)
               /\ Due(stack, b, ro, k, n) => Due(st, b, ro, k, n)
    BY <2>1, <2>2, OtherFrame DEF a
  <2>8. Masks!Latest(a, f.mask) <=> f.mask.by = r
    BY <1>0, <2>6 DEF Masks!Latest
  <2>9. PICK gone, k \in Masks!Mask \cup {Masks!None} :
          /\ masks' = [masks EXCEPT ![a] = m \ {gone}] /\ held' = [held EXCEPT ![a] = k]
          /\ stack' = IF gone = Masks!None THEN st ELSE Append(st, Masks!Releasing)
          /\ Carries(st, a, m \ {gone}, k, r, tracked)
          /\ \A role : Due(stack, a, role, h, r) => Due(st, a, role, k, r)
    <3>1. CASE f.mask.by = r
      <4>1. /\ held' = [held EXCEPT ![a] = f.mask] /\ masks' = [masks EXCEPT ![a] = m \ {f.prior}]
            /\ stack' = IF f.prior = Masks!None THEN st ELSE Append(st, Masks!Releasing)
        BY <1>0, <2>1, <2>3, <2>8, <3>1 DEF Masks!Drop, MasksTyped
      <4>2. /\ f.mask \in Masks!Mask \cup {Masks!None}
            /\ Carries(st, a, m \ {f.prior}, f.mask, r, tracked)
            /\ \A role : Due(stack, a, role, h, r) => Due(st, a, role, f.mask, r)
        BY <2>6, <3>1
      <4>3. f.prior \in Masks!Mask \cup {Masks!None} BY <2>1, <2>2 DEF Frames, Masks!Releasing
      <4>4. QED BY <4>1, <4>2, <4>3
    <3>2. CASE f.mask.by # r
      <4>1. /\ held' = [held EXCEPT ![a] = h] /\ masks' = [masks EXCEPT ![a] = m \ {f.mask}]
            /\ stack' = IF f.mask = Masks!None THEN st ELSE Append(st, Masks!Releasing)
        BY <1>0, <2>1, <2>3, <2>8, <3>2 DEF Masks!Drop, MasksTyped
      <4>2. QED BY <2>4, <2>6, <3>2, <4>1
    <3>3. QED BY <3>1, <3>2
  <2>10. PICK st2 \in Seq(Frames) :
          /\ stack' = st2
          /\ \A b \in Agents : \A mm, kk, n, bound, ro :
               /\ Carries(st, b, mm, kk, n, bound) => Carries(st2, b, mm, kk, n, bound)
               /\ Due(st, b, ro, kk, n) => Due(st2, b, ro, kk, n)
    <3> DEFINE st2 == IF gone = Masks!None THEN st ELSE Append(st, Masks!Releasing)
    <3>1. /\ st2 \in Seq(Frames)
          /\ \A b \in Agents : \A mm, kk, n, bound, ro :
               /\ Carries(st, b, mm, kk, n, bound) => Carries(st2, b, mm, kk, n, bound)
               /\ Due(st, b, ro, kk, n) => Due(st2, b, ro, kk, n)
      BY <2>2, ReleaseFrame
    <3>2. stack' = st2 BY <2>9
    <3> HIDE DEF st2
    <3>3. QED BY <3>1, <3>2
  <2>11. /\ masks'[a] = m \ {gone} /\ held'[a] = k
         /\ \A b \in Agents \ {a} : masks'[b] = masks[b] /\ held'[b] = held[b]
    BY <1>0, <2>3, <2>9 DEF MasksTyped
  <2>12. MasksTyped' BY <1>0, <2>1, <2>4, <2>9, <2>10 DEF MasksTyped
  <2>13. ASSUME NEW b \in Agents PROVE Carries(stack', b, masks'[b], held'[b], revision'[b], tracked')
    <3>1. CASE b = a
      <4>1. Carries(st2, a, m \ {gone}, k, r, tracked) BY <2>3, <2>9, <2>10
      <4>2. QED BY <2>1, <2>10, <2>11, <3>1, <4>1
    <3>2. CASE b # a
      <4>1. Carries(st2, b, masks[b], held[b], revision[b], tracked)
        BY <1>0, <2>7, <2>10, <3>2
      <4>2. QED BY <2>1, <2>10, <2>11, <3>2, <4>1
    <3>3. QED BY <3>1, <3>2
  <2>14. ASSUME NEW b \in tracked' \ outdated'
         PROVE  Due(stack', b, preset'[SessionOf[b]], held'[b], revision'[b])
    <3>1. b \in tracked \ outdated /\ b \in Agents BY <1>0, <2>1 DEF MasksTyped
    <3>2. Due(stack, b, preset[SessionOf[b]], held[b], revision[b]) BY <1>0, <3>1
    <3>3. CASE b = a
      <4> DEFINE role == preset[SessionOf[a]]
      <4>1. Due(stack, a, role, h, r) BY <3>2, <3>3
      <4> HIDE DEF h, m, r
      <4>2. Due(st, a, role, k, r) BY <2>9, <4>1
      <4>3. Due(st2, a, role, k, r) BY <2>3, <2>10, <4>2
      <4>4. QED BY <2>1, <2>10, <2>11, <3>3, <4>3 DEF r
    <3>4. CASE b # a
      <4>1. Due(st2, b, preset[SessionOf[b]], held[b], revision[b])
        BY <2>7, <2>10, <3>1, <3>2, <3>4
      <4>2. QED BY <2>1, <2>10, <2>11, <3>1, <3>4, <4>1
    <3>5. QED BY <3>3, <3>4
  <2>15. QED BY <1>0, <2>1, <2>12, <2>13, <2>14 DEF MasksInv
<1>7. CASE Masks!Released
  <2> DEFINE st == Masks!Front(stack)
             f == stack[Len(stack)]
  <2>1. /\ stack # <<>> /\ f.op = "release" /\ stack' = st
        /\ UNCHANGED <<preset, masks, active, tracked, revision, held, outdated>>
    BY <1>7 DEF Masks!Released, Masks!Top, Masks!Below, Masks!bindingVars
  <2>2. st \in Seq(Frames) /\ f \in Frames /\ stack = Append(st, f)
    BY <1>0, <2>1, PopFrame DEF MasksTyped
  <2> HIDE DEF st, f
  <2>3. ASSUME NEW b \in Agents, NEW m, NEW h, NEW r, NEW bound, NEW role
        PROVE  /\ Carries(stack, b, m, h, r, bound) => Carries(st, b, m, h, r, bound)
               /\ Due(stack, b, role, h, r) => Due(st, b, role, h, r)
    BY <2>1, <2>2, OtherFrame
  <2>4. MasksTyped' BY <1>0, <2>1, <2>2 DEF MasksTyped
  <2>5. \A b \in Agents : Carries(st, b, masks[b], held[b], revision[b], tracked)
    BY <1>0, <2>3
  <2>6. \A b \in tracked \ outdated : Due(st, b, preset[SessionOf[b]], held[b], revision[b])
    BY <1>0, <2>3 DEF MasksTyped
  <2>7. QED BY <1>0, <2>1, <2>4, <2>5, <2>6 DEF MasksInv
<1>8. CASE Masks!Unloaded
  <2>1. /\ active' = FALSE /\ tracked' = {} /\ UNCHANGED <<preset, stack>>
        /\ masks' = [a \in Agents |-> masks[a] \ {held[a]}]
        /\ held' = [a \in Agents |-> Masks!None]
        /\ revision' = [a \in Agents |-> IF a \in tracked THEN revision[a] + 1 ELSE revision[a]]
    BY <1>8 DEF Masks!Unloaded
  <2>2. MasksTyped' BY <1>0, <2>1 DEF MasksTyped
  <2>3. ASSUME NEW a \in Agents PROVE Carries(stack', a, masks'[a], held'[a], revision'[a], tracked')
    <3> DEFINE h == held[a]
               m == masks[a]
               r == revision[a]
    <3>1. /\ h \in Masks!Mask \cup {Masks!None} /\ m \in SUBSET Masks!Mask /\ r \in Nat
          /\ Carries(stack, a, m, h, r, tracked) /\ stack \in Seq(Frames)
      BY <1>0 DEF MasksTyped
    <3>2. /\ masks'[a] = m \ {h} /\ held'[a] = Masks!None
          /\ revision'[a] = IF a \in tracked THEN r + 1 ELSE r
      BY <2>1
    <3> HIDE DEF h, m, r
    <3>3. \A any : Carries(stack, a, m \ {h}, Masks!None, r + 1, any)
      BY <3>1, Rebound
    <3>4. CASE a \in tracked BY <2>1, <3>2, <3>3, <3>4
    <3>5. CASE a \notin tracked
      <4>1. h = Masks!None BY <3>1, <3>5 DEF Carries
      <4>2. Carries(stack, a, m, Masks!None, r, tracked') BY <2>1, <3>1, <3>5, <4>1, BoundElsewhere
      <4>3. m \ {h} = m BY <3>1, <4>1, <4>2, NothingHeld
      <4>4. QED BY <2>1, <3>2, <3>5, <4>1, <4>2, <4>3
    <3>6. QED BY <3>4, <3>5
  <2>4. QED BY <2>1, <2>2, <2>3 DEF MasksInv
<1>9. QED BY <1>1, <1>2, <1>3, <1>4, <1>5, <1>6, <1>7, <1>8 DEF Masks!Next, maskVars

------------------------------------------------------------------------------
(* The policies of the coder (CoderApproval).                              *)

(* The order of the natural numbers as a relation.                        *)
Less == {ss \in Nat \X Nat : ss[1] < ss[2]}

(* Every set of numbers that is not empty has a least one: the order of the*)
(* natural numbers is well founded.                                       *)
LEMMA Least ==
  ASSUME NEW T \in SUBSET Nat, T # {}
  PROVE  \E n \in T : \A m \in T : n =< m
<1>1. IsWellFoundedOn(Less, Nat)
  BY NatLessThanWellFounded DEF OpToRel, Less
<1>2. PICK n \in T : \A m \in T : ~(<<m, n>> \in Less)
  <2> HIDE DEF Less
  <2> QED BY <1>1, WFMin
<1>3. ASSUME NEW m \in T PROVE n =< m
  <2>1. <<m, n>> \in Nat \X Nat /\ ~(<<m, n>> \in Less) BY <1>2
  <2>2. ~(m < n) BY <2>1 DEF Less
  <2>3. QED BY <2>2
<1>4. QED BY <1>3

(* What Max chooses in a set of places of a log.                          *)
LEMMA Greatest ==
  ASSUME NEW n \in Nat, NEW S \in SUBSET (1..n), S # {}
  PROVE  Policies!Max(S) \in S /\ \A m \in S : m =< Policies!Max(S)
<1> DEFINE T == {k \in Nat : n - k \in S}
<1>1. T # {}
  <2>1. PICK m \in S : TRUE OBVIOUS
  <2>2. n - m \in Nat /\ n - (n - m) = m BY <2>1
  <2>3. QED BY <2>1, <2>2
<1>2. PICK k \in T : \A j \in T : k =< j
  <2> HIDE DEF T
  <2>1. T \in SUBSET Nat BY DEF T
  <2>2. QED BY <1>1, <2>1, Least
<1>3. n - k \in S BY <1>2
<1>4. ASSUME NEW m \in S PROVE m =< n - k
  <2>1. n - m \in Nat /\ n - (n - m) = m OBVIOUS
  <2>2. n - m \in T BY <2>1
  <2>3. k =< n - m BY <1>2, <2>2
  <2>4. QED BY <2>3, <1>2
<1>5. \E m \in S : \A j \in S : m >= j
  BY <1>3, <1>4
<1>6. QED BY <1>5 DEF Policies!Max

(* What the plugin writes, and the entries of a log.                      *)
AskOfPlugin == Policies!Event("ask", "plugin")
Entries == [policy : {"ask", "never", "none"}, by : {"delegation", "plugin", "other", "turn"}]

(* What the plugin has written so far, and where it stands while it has yet *)
(* to finish.                                                              *)
LogTyped == policyLog \in Seq(Entries) /\ inherited \in Nat

Written ==
  \A i \in 1..Len(policyLog) : policyLog[i].by = "plugin" =>
    /\ inherited = 0 /\ policySeq = 1
    /\ policyLog[1] = Policies!Delegated /\ (policyLog[i].policy = "ask" => i = 2)
    /\ \A j \in 1..i - 1 : policyLog[j].by # "other"

Unfinished ==
  apc \in {"written", "failing"} =>
    /\ policySeq = 1 /\ inherited = 0
    /\ policyLog[1] = Policies!Delegated
    /\ 2 \in 1..Len(policyLog) => policyLog[2] = AskOfPlugin
    /\ apc = "written" => 2 \in 1..Len(policyLog)

AskTakenBack ==
  apc = "failed" /\ Policies!Switches(0) # {} =>
    policyLog[Policies!Max(Policies!Switches(0))] # AskOfPlugin

(* The inductive invariant of the approval policies.                      *)
PoliciesInv == LogTyped /\ Written /\ Unfinished /\ AskTakenBack

(* The invariant is enough.                                               *)
LEMMA PoliciesKeep == PoliciesInv => OwnPoliciesOnly
BY DEF PoliciesInv, Written, AskTakenBack, OwnPoliciesOnly, Policies!OwnPoliciesOnly, AskOfPlugin

(* It holds of every log a session starts with.                           *)
LEMMA PoliciesInit == Policies!Init => PoliciesInv
<1> SUFFICES ASSUME Policies!Init PROVE PoliciesInv
  OBVIOUS
<1>1. /\ policyLog \in Policies!Histories /\ inherited \in 0..Len(policyLog) /\ apc = "idle"
  BY DEF Policies!Init
<1>2. /\ policyLog \in Seq(Entries)
      /\ \A i \in 1..Len(policyLog) : policyLog[i].by # "plugin"
  <2>1. /\ Policies!Delegated \in Entries /\ Policies!Turn \in Entries
        /\ Policies!Event("never", "other") \in Entries
    BY DEF Policies!Delegated, Policies!Turn, Policies!Event, Entries
  <2>2. /\ Policies!Delegated.by # "plugin" /\ Policies!Turn.by # "plugin"
        /\ Policies!Event("never", "other").by # "plugin"
    BY DEF Policies!Delegated, Policies!Turn, Policies!Event
  <2> DEFINE D == Policies!Delegated
             T == Policies!Turn
             O == Policies!Event("never", "other")
  <2>3. policyLog \in {<<>>, <<D>>, <<O>>, <<D, T>>, <<D, O>>}
    BY <1>1 DEF Policies!Histories
  <2> HIDE DEF D, T, O
  <2>4. {D, T, O} \subseteq {e \in Entries : e.by # "plugin"}
    BY <2>1, <2>2 DEF D, T, O
  <2>5. \A a, b \in {e \in Entries : e.by # "plugin"} :
          /\ <<a>> \in Seq(Entries) /\ <<a, b>> \in Seq(Entries)
          /\ \A i \in 1..Len(<<a>>) : <<a>>[i].by # "plugin"
          /\ \A i \in 1..Len(<<a, b>>) : <<a, b>>[i].by # "plugin"
    OBVIOUS
  <2>6. CASE policyLog = <<>> BY <2>6
  <2>7. QED BY <2>3, <2>4, <2>5, <2>6
<1>3. LogTyped BY <1>1, <1>2 DEF LogTyped
<1>4. QED BY <1>1, <1>2, <1>3 DEF PoliciesInv, Written, Unfinished, AskTakenBack

(* The policy a fresh coder starts with is the one entry of its log.         *)
LEMMA FreshLog ==
  ASSUME LogTyped, Policies!Fresh
  PROVE  Len(policyLog) = 1 /\ policyLog[1] = Policies!Delegated /\ inherited = 0
<1> DEFINE n == Len(policyLog)
<1>1. inherited = 0 /\ n \in Nat /\ policyLog \in Seq(Entries)
  BY DEF Policies!Fresh, LogTyped
<1>2. Policies!Switches(inherited) = 1..n
  BY <1>1 DEF Policies!Fresh, Policies!Started, Policies!Switches
<1>3. Cardinality(1..n) = n
  BY <1>1, FS_Interval, SMTT(30)
<1>4. n = 1
  <2>1. Policies!Min({2, n}) = 1
    <3>1. Policies!PolicyCount = Policies!Min({2, n})
      <4>1. Policies!Cardinality(1..n) = Cardinality(1..n)
        BY DEF Policies!Cardinality, Cardinality
      <4>2. QED BY <1>2, <1>3, <4>1 DEF Policies!PolicyCount
    <3>2. QED BY <3>1 DEF Policies!Fresh
  <2>2. \E m \in {2, n} : \A k \in {2, n} : m =< k
    BY <1>1
  <2>3. Policies!Min({2, n}) \in {2, n}
    <3> HIDE DEF n
    <3> QED BY <2>2 DEF Policies!Min
  <2>4. QED BY <2>1, <2>3
<1>5. Policies!Max(1..n) \in 1..n
  BY <1>4, Greatest
<1>6. policyLog[1] = Policies!Delegated
  BY <1>2, <1>4, <1>5 DEF Policies!Fresh, Policies!Latest
<1>7. QED BY <1>1, <1>4, <1>6

(* An entry more in the log.                                               *)
LEMMA Longer ==
  ASSUME LogTyped, NEW e \in Entries, policyLog' = Append(policyLog, e)
  PROVE  /\ policyLog' \in Seq(Entries) /\ Len(policyLog') = Len(policyLog) + 1
         /\ \A i \in 1..Len(policyLog) : policyLog'[i] = policyLog[i]
         /\ policyLog'[Len(policyLog')] = e
         /\ Len(policyLog) \in Nat
BY AppendProperties, LenProperties DEF LogTyped

(* The last policy switch is the entry just written, unless that is a turn.*)
LEMMA LastSwitch ==
  ASSUME LogTyped, NEW e \in Entries, policyLog' = Append(policyLog, e)
  PROVE  /\ e # Policies!Turn => /\ Policies!Switches(0)' # {}
                                 /\ Policies!Max(Policies!Switches(0))' = Len(policyLog')
         /\ e = Policies!Turn => Policies!Switches(0)' = Policies!Switches(0)
<1> DEFINE n == Len(policyLog')
<1>1. Policies!Switches(0)' = {i \in 1..n : policyLog'[i] # Policies!Turn}
  BY DEF Policies!Switches, Policies!Turn
<1>2. Policies!Switches(0) = {i \in 1..Len(policyLog) : policyLog[i] # Policies!Turn}
  BY DEF Policies!Switches
<1>3. ASSUME e # Policies!Turn
      PROVE  Policies!Switches(0)' # {} /\ Policies!Max(Policies!Switches(0))' = n
  <2>1. n \in Policies!Switches(0)' /\ n \in Nat BY <1>1, <1>3, Longer
  <2>2. Policies!Switches(0)' \subseteq 1..n BY <1>1
  <2>3. /\ Policies!Max(Policies!Switches(0)') \in Policies!Switches(0)'
        /\ n =< Policies!Max(Policies!Switches(0)')
    <3> HIDE DEF n
    <3> DEFINE S == Policies!Switches(0)'
    <3>1. n \in S /\ S \in SUBSET (1..n) BY <2>1, <2>2
    <3> HIDE DEF S
    <3>2. Policies!Max(S) \in S /\ n =< Policies!Max(S) BY <2>1, <3>1, Greatest
    <3>3. QED BY <3>2 DEF S
  <2>4. Policies!Max(Policies!Switches(0)') = n
    BY <2>1, <2>2, <2>3
  <2>5. QED BY <2>1, <2>4 DEF Policies!Max
<1>4. e = Policies!Turn => Policies!Switches(0)' = Policies!Switches(0)
  <2>1. SUFFICES ASSUME e = Policies!Turn
                 PROVE  \A i : i \in Policies!Switches(0)' <=> i \in Policies!Switches(0)
    OBVIOUS
  <2>2. \A i : i \in 1..n <=> i \in 1..Len(policyLog) \/ i = n
    BY Longer
  <2>3. policyLog'[n] = Policies!Turn BY <2>1, Longer
  <2>4. n \notin 1..Len(policyLog) BY Longer
  <2>5. QED BY <1>1, <1>2, <2>2, <2>3, <2>4, Longer
<1>5. QED BY <1>3, <1>4

(* Every step of the plugin and of the others that write the log keeps it.*)
LEMMA PoliciesStep ==
  ASSUME PoliciesInv, Policies!Next \/ UNCHANGED policyVars
  PROVE  PoliciesInv'
<1>0. LogTyped /\ Written /\ Unfinished /\ AskTakenBack BY DEF PoliciesInv
<1>1. ASSUME UNCHANGED <<policyLog, inherited, apc, policySeq>> PROVE PoliciesInv'
  BY <1>0, <1>1 DEF PoliciesInv, LogTyped, Written, Unfinished, AskTakenBack, Policies!Switches, Policies!Max
<1>2. CASE Policies!Created
  <2>1. CASE UNCHANGED <<policyLog, apc, policySeq>>
    BY <1>1, <1>2, <2>1 DEF Policies!Created
  <2>2. ASSUME Policies!Fresh, Policies!Initialize, UNCHANGED inherited PROVE PoliciesInv'
    <3>1. Len(policyLog) = 1 /\ policyLog[1] = Policies!Delegated /\ inherited = 0
      BY <1>0, <2>2, FreshLog
    <3>2. policySeq' = 1
      BY <2>2, <3>1 DEF Policies!Initialize
    <3>3. CASE policyLog' = Append(policyLog, AskOfPlugin) /\ apc' = "written"
      <4>1. AskOfPlugin \in Entries /\ AskOfPlugin.by = "plugin" /\ AskOfPlugin.policy = "ask"
        BY DEF AskOfPlugin, Entries, Policies!Event
      <4>2. /\ policyLog' \in Seq(Entries) /\ Len(policyLog') = 2
            /\ policyLog'[1] = Policies!Delegated /\ policyLog'[2] = AskOfPlugin
        BY <1>0, <3>1, <3>3, <4>1, Longer
      <4>3. LogTyped' BY <1>0, <2>2, <4>2 DEF LogTyped
      <4>4. Unfinished' BY <2>2, <3>1, <3>2, <3>3, <4>2 DEF Unfinished, Policies!Delegated, AskOfPlugin
      <4>5. AskTakenBack' BY <3>3 DEF AskTakenBack
      <4>6. Policies!Delegated.by # "plugin" /\ Policies!Delegated.by # "other"
        BY DEF Policies!Delegated, Policies!Event
      <4>7. Written'
        BY <2>2, <3>1, <3>2, <4>1, <4>2, <4>6 DEF Written, Policies!Delegated
      <4>8. QED BY <4>3, <4>4, <4>5, <4>7 DEF PoliciesInv
    <3>4. CASE policyLog' = policyLog /\ apc' = "failing"
      <4>1. LogTyped' BY <1>0, <2>2, <3>4 DEF LogTyped
      <4>2. Unfinished' BY <2>2, <3>1, <3>2, <3>4 DEF Unfinished, Policies!Delegated, AskOfPlugin
      <4>3. AskTakenBack' BY <3>4 DEF AskTakenBack
      <4>4. Written' BY <1>0, <2>2, <3>1, <3>2, <3>4 DEF Written, Policies!Delegated
      <4>5. QED BY <4>1, <4>2, <4>3, <4>4 DEF PoliciesInv
    <3>5. QED BY <2>2, <3>3, <3>4 DEF Policies!Initialize, AskOfPlugin
  <2>3. QED BY <1>2, <2>1, <2>2 DEF Policies!Created
<1>3. CASE Policies!Injected
  <2>1. /\ apc = "written" /\ apc' \in {"done", "failing"}
        /\ UNCHANGED <<policyLog, inherited, policySeq>>
    BY <1>3 DEF Policies!Injected
  <2>2. LogTyped' BY <1>0, <2>1 DEF LogTyped
  <2>3. Written' BY <1>0, <2>1 DEF Written, Policies!Delegated
  <2>4. Unfinished' BY <1>0, <2>1 DEF Unfinished, Policies!Delegated, AskOfPlugin
  <2>5. AskTakenBack' BY <2>1 DEF AskTakenBack
  <2>6. QED BY <2>2, <2>3, <2>4, <2>5 DEF PoliciesInv
<1>4. CASE Policies!RollBack
  <2> DEFINE n == Len(policyLog)
             last == Policies!Max(Policies!Switches(0))
  <2>1. /\ apc = "failing" /\ policySeq = 1 /\ inherited = 0 /\ policyLog[1] = Policies!Delegated
        /\ UNCHANGED <<inherited, policySeq>> /\ n \in Nat
    BY <1>0, <1>4 DEF Policies!RollBack, Unfinished, LogTyped
  <2>2. Policies!Switches(0) # {} => last \in Policies!Switches(0) /\ \A i \in Policies!Switches(0) : i =< last
    <3>1. Policies!Switches(0) \in SUBSET (1..n) BY DEF Policies!Switches
    <3>2. QED BY <2>1, <3>1, Greatest
  <2>3. CASE UNCHANGED policyLog /\ apc' = "stranded"
    <3>1. LogTyped' BY <1>0, <2>1, <2>3 DEF LogTyped
    <3>2. Written' BY <1>0, <2>1, <2>3 DEF Written, Policies!Delegated
    <3>3. QED BY <2>3, <3>1, <3>2 DEF PoliciesInv, Unfinished, AskTakenBack
  <2>4. ASSUME Policies!OwnsPolicy, policyLog' = Append(policyLog, Policies!Event("never", "plugin")),
               apc' = "failed"
        PROVE  PoliciesInv'
    <3> DEFINE e == Policies!Event("never", "plugin")
    <3>1. e \in Entries /\ e # Policies!Turn /\ e # AskOfPlugin /\ e.by # "other" /\ e.policy # "ask"
      BY DEF Entries, Policies!Event, Policies!Turn, AskOfPlugin
    <3>2. Policies!Switches(0) # {} /\ last = 2 /\ policyLog[last].policy = "ask"
      <4>1. Policies!Switches(0) # {} /\ last - 1 = 1 /\ policyLog[last].policy = "ask"
        BY <2>1, <2>4 DEF Policies!OwnsPolicy, Policies!LatestSeq, Policies!Latest
      <4>2. last \in 1..n BY <2>2, <4>1 DEF Policies!Switches
      <4>3. QED BY <2>1, <4>1, <4>2
    <3>3. 2 \in 1..n /\ policyLog[2] = AskOfPlugin
      BY <1>0, <2>1, <2>2, <3>2 DEF Policies!Switches, Unfinished
    <3>4. \A j \in 1..n : policyLog[j].by # "other"
      <4>1. ASSUME NEW j \in 1..n PROVE policyLog[j].by # "other"
        <5>1. CASE j = 1 BY <2>1, <5>1 DEF Policies!Delegated, Policies!Event
        <5>2. CASE j = 2 BY <3>3, <5>2 DEF AskOfPlugin, Policies!Event
        <5>3. CASE j > 2
          <6>1. policyLog[j] = Policies!Turn BY <2>1, <2>2, <3>2, <5>3 DEF Policies!Switches
          <6>2. QED BY <6>1 DEF Policies!Turn, Policies!Event
        <5>4. QED BY <2>1, <5>1, <5>2, <5>3
      <4>2. QED BY <4>1
    <3>5. /\ policyLog' \in Seq(Entries) /\ Len(policyLog') = n + 1
          /\ \A i \in 1..n : policyLog'[i] = policyLog[i]
          /\ policyLog'[n + 1] = e
      <4> HIDE DEF e
      <4> QED BY <1>0, <2>4, <3>1, Longer DEF e
    <3>6. LogTyped' BY <1>0, <2>1, <3>5 DEF LogTyped
    <3>7. AskTakenBack'
      <4>1. Policies!Max(Policies!Switches(0))' = Len(policyLog')
        <5> HIDE DEF e
        <5> QED BY <1>0, <2>4, <3>1, LastSwitch DEF e
      <4>2. policyLog'[Len(policyLog')] # AskOfPlugin BY <3>1, <3>5
      <4>3. QED BY <4>1, <4>2 DEF AskTakenBack, AskOfPlugin
    <3>8. ASSUME NEW i \in 1..n + 1, policyLog'[i].by = "plugin"
          PROVE  /\ inherited' = 0 /\ policySeq' = 1
                 /\ policyLog'[1] = Policies!Delegated /\ (policyLog'[i].policy = "ask" => i = 2)
                 /\ \A j \in 1..i - 1 : policyLog'[j].by # "other"
      <4>1. policyLog'[1] = policyLog[1] BY <3>3, <3>5
      <4>2. policyLog'[i].policy = "ask" => i = 2
        <5>1. CASE i = n + 1 BY <3>1, <3>5, <5>1
        <5>2. CASE i \in 1..n BY <1>0, <3>5, <3>8, <5>2 DEF Written
        <5>3. QED BY <2>1, <5>1, <5>2
      <4>3. \A j \in 1..i - 1 : j \in 1..n BY <2>1
      <4>4. QED BY <2>1, <3>4, <3>5, <4>1, <4>2, <4>3
    <3>9. Written' BY <3>5, <3>8 DEF Written, Policies!Delegated
    <3>10. QED BY <2>4, <3>6, <3>7, <3>9 DEF PoliciesInv, Unfinished
  <2>5. ASSUME ~Policies!OwnsPolicy, UNCHANGED policyLog, apc' = "failed"
        PROVE  PoliciesInv'
    <3>1. LogTyped' BY <1>0, <2>1, <2>5 DEF LogTyped
    <3>2. Written' BY <1>0, <2>1, <2>5 DEF Written, Policies!Delegated
    <3>3. ASSUME Policies!Switches(0) # {}, policyLog[last] = AskOfPlugin
          PROVE  FALSE
      <4>1. last \in 1..n BY <2>2, <3>3 DEF Policies!Switches
      <4>2. AskOfPlugin.by = "plugin" /\ AskOfPlugin.policy = "ask"
        BY DEF AskOfPlugin, Policies!Event
      <4>3. last = 2 BY <1>0, <3>3, <4>1, <4>2 DEF Written
      <4>4. Policies!OwnsPolicy
        BY <2>1, <3>3, <4>2, <4>3
           DEF Policies!OwnsPolicy, Policies!LatestSeq, Policies!Latest, Policies!CurrentPolicy
      <4>5. QED BY <2>5, <4>4
    <3>4. AskTakenBack'
      BY <2>5, <3>3 DEF AskTakenBack, Policies!Switches, Policies!Max, AskOfPlugin, Policies!Turn
    <3>5. QED BY <2>5, <3>1, <3>2, <3>4 DEF PoliciesInv, Unfinished
  <2>6. QED BY <1>4, <2>3, <2>4, <2>5 DEF Policies!RollBack
<1>5. CASE Policies!Others
  <2>1. /\ apc # "failing" /\ UNCHANGED <<inherited, apc, policySeq>>
    BY <1>5 DEF Policies!Others
  <2>2. CASE UNCHANGED policyLog
    BY <1>1, <2>1, <2>2
  <2>3. ASSUME NEW e \in [policy : Policies!Policies, by : {"other"}] \cup {Policies!Turn},
               policyLog' = Append(policyLog, e)
        PROVE  PoliciesInv'
    <3> DEFINE n == Len(policyLog)
    <3>1. e \in Entries /\ e.by # "plugin" /\ e # AskOfPlugin
      BY <2>3 DEF Entries, Policies!Policies, Policies!Event, Policies!Turn, AskOfPlugin
    <3>2. /\ policyLog' \in Seq(Entries) /\ Len(policyLog') = n + 1 /\ n \in Nat
          /\ \A i \in 1..n : policyLog'[i] = policyLog[i]
          /\ policyLog'[n + 1] = e
      BY <1>0, <2>3, <3>1, Longer
    <3>3. LogTyped' BY <1>0, <2>1, <3>2 DEF LogTyped
    <3>4. Written'
      <4>1. ASSUME NEW i \in 1..n + 1, policyLog'[i].by = "plugin"
            PROVE  /\ inherited' = 0 /\ policySeq' = 1
                   /\ policyLog'[1] = Policies!Delegated /\ (policyLog'[i].policy = "ask" => i = 2)
                   /\ \A j \in 1..i - 1 : policyLog'[j].by # "other"
        <5>1. i \in 1..n BY <3>1, <3>2, <4>1
        <5>2. \A j \in 1..i - 1 : j \in 1..n BY <3>2, <5>1
        <5>3. 1 \in 1..n BY <3>2, <5>1
        <5>4. QED BY <1>0, <2>1, <3>2, <4>1, <5>1, <5>2, <5>3 DEF Written
      <4>2. QED BY <3>2, <4>1 DEF Written, Policies!Delegated
    <3>5. Unfinished'
      <4>1. ASSUME apc = "written" PROVE 1 \in 1..n /\ 2 \in 1..n
        BY <1>0, <3>2, <4>1 DEF Unfinished
      <4>2. QED BY <1>0, <2>1, <3>2, <4>1 DEF Unfinished, Policies!Delegated, AskOfPlugin
    <3>6. AskTakenBack'
      <4>1. CASE e = Policies!Turn
        <5>1. Policies!Switches(0)' = Policies!Switches(0)
          BY <1>0, <2>3, <3>1, <4>1, LastSwitch
        <5>2. Policies!Max(Policies!Switches(0))' = Policies!Max(Policies!Switches(0))
          BY <5>1 DEF Policies!Max
        <5>3. Policies!Switches(0) # {} => Policies!Max(Policies!Switches(0)) \in 1..n
          <6>1. Policies!Switches(0) \in SUBSET (1..n) BY DEF Policies!Switches
          <6>2. QED BY <3>2, <6>1, Greatest
        <5>4. QED BY <1>0, <2>1, <3>2, <5>1, <5>2, <5>3 DEF AskTakenBack, AskOfPlugin
      <4>2. CASE e # Policies!Turn
        <5>1. Policies!Max(Policies!Switches(0))' = Len(policyLog')
          BY <1>0, <2>3, <3>1, <4>2, LastSwitch
        <5>2. QED BY <3>1, <3>2, <5>1 DEF AskTakenBack, AskOfPlugin
      <4>3. QED BY <4>1, <4>2
    <3>7. QED BY <3>3, <3>4, <3>5, <3>6 DEF PoliciesInv
  <2>4. QED BY <1>5, <2>2, <2>3 DEF Policies!Others
<1>6. QED BY <1>1, <1>2, <1>3, <1>4, <1>5 DEF Policies!Next, policyVars

------------------------------------------------------------------------------
(* The gates of a tool call (ToolGuards).                                  *)

(* Where a call has been let through so far, and by what.                   *)
RawAllows == Tools!DecideRawAccess(call).kind = "next"
Surfaced == \E i \in DOMAIN rules : rules[i] = Tools!SurfaceRule(call)

(* What the look at the places of a call can have found.                  *)
Identified ==
  /\ \A p \in Tools!Places : where[p] \in {"outside", "raw", "governance", "unknown", "broken"}
  /\ \A p \in Tools!Places :
       where[p] = "governance" => call.tool \in Tools!FileTools \cup Tools!ShellTools

(* What each stage of a call has yet to decide.                           *)
Stages ==
  /\ gpc \in {"idle", "called"} => rules = <<>>
  /\ gpc \in {"idle", "called", "permitted"} => asker = "none"
  /\ gpc # "end" => ruling = "none"
  /\ rules # <<>> => Surfaced

(* Who let the call through, or put it to the user.                       *)
Granted ==
  \/ asker = "raw" /\ Tools!DecideRawAccess(call).kind = "ask"
  \/ /\ RawAllows /\ Surfaced
     /\ \/ asker = "gate" /\ Tools!GateDecision(call).kind = "ask"
        \/ asker = "none" /\ gpc = "end" /\ Tools!GateDecision(call).kind = "next"

(* The inductive invariant of the two gates.                              *)
ToolsInv ==
  /\ Identified /\ Stages
  /\ gpc = "permitted" => RawAllows
  /\ gpc = "asked" \/ ruling = "runs" => Granted

(* What Min chooses among the places of a call.                           *)
LEMMA LeastPlace ==
  ASSUME NEW S \in SUBSET (1..4), S # {}
  PROVE  Tools!Min(S) \in S
<1>1. S \in SUBSET Nat OBVIOUS
<1>2. \E n \in S : \A m \in S : n =< m BY <1>1, Least
<1>3. QED BY <1>2 DEF Tools!Min

(* A call is checked at four places at most.                              *)
LEMMA FewPlaces ==
  ASSUME NEW c
  PROVE  /\ DOMAIN Tools!Checked(c) \subseteq 1..4
         /\ \A i \in DOMAIN Tools!Checked(c) : Tools!Checked(c)[i] \in Tools!Places
<1>1. CASE c.tool \in {"task_create", "change_submit", "change_create", "shud_build", "verification_run"}
  BY <1>1 DEF Tools!Checked, Tools!Places, Tools!Card
<1>2. CASE c.tool = "report_generate"
  BY <1>2 DEF Tools!Checked, Tools!Places
<1>3. CASE c.tool = "shud_run"
  BY <1>3 DEF Tools!Checked, Tools!Places
<1>4. CASE c.tool \notin {"task_create", "change_submit", "change_create", "shud_build",
                          "verification_run", "report_generate", "shud_run"}
  BY <1>4 DEF Tools!Checked, Tools!Places
<1>5. QED BY <1>1, <1>2, <1>3, <1>4

(* Every place a call writes is among those the raw guard checks.         *)
LEMMA WritesAreChecked ==
  ASSUME NEW c, NEW p \in Tools!Writes(c)
  PROVE  /\ p \in Tools!Places
         /\ \E i \in DOMAIN Tools!Checked(c) : Tools!Checked(c)[i] = p
<1>1. CASE c.tool = "task_create"
  <2>1. Tools!Checked(c) = <<"tasks">>
    BY <1>1 DEF Tools!Checked, Tools!FileTools, Tools!ReportTools
  <2>2. p \in {"tasks"}
    BY <1>1 DEF Tools!Writes, Tools!FileTools, Tools!ReportTools
  <2>3. \A i \in {1} : i \in DOMAIN Tools!Checked(c)
    BY <2>1
  <2>4. QED BY <2>1, <2>2, <2>3 DEF Tools!Places
<1>2. CASE c.tool = "change_submit" /\ c.id
  <2>1. Tools!Checked(c) = <<"change">>
    BY <1>2 DEF Tools!Checked, Tools!FileTools, Tools!ReportTools
  <2>2. p \in {"change"}
    BY <1>2 DEF Tools!Writes, Tools!FileTools, Tools!ReportTools
  <2>3. \A i \in {1} : i \in DOMAIN Tools!Checked(c)
    BY <2>1
  <2>4. QED BY <2>1, <2>2, <2>3 DEF Tools!Places
<1>3. CASE c.tool = "change_create" /\ c.id
  <2>1. Tools!Checked(c) = <<"changes", "patches", "card", "repos">>
    BY <1>3 DEF Tools!Checked, Tools!FileTools, Tools!ReportTools, Tools!Card
  <2>2. p \in {"changes", "patches", "card"}
    BY <1>3 DEF Tools!Writes, Tools!FileTools, Tools!ReportTools, Tools!Card
  <2>3. \A i \in {1, 2, 3} : i \in DOMAIN Tools!Checked(c)
    BY <2>1
  <2>4. QED BY <2>1, <2>2, <2>3 DEF Tools!Places
<1>4. CASE c.tool = "shud_build"
  <2>1. Tools!Checked(c) = <<"builds", "repos">>
    BY <1>4 DEF Tools!Checked, Tools!FileTools, Tools!ReportTools
  <2>2. p \in {"builds"}
    BY <1>4 DEF Tools!Writes, Tools!FileTools, Tools!ReportTools
  <2>3. \A i \in {1} : i \in DOMAIN Tools!Checked(c)
    BY <2>1
  <2>4. QED BY <2>1, <2>2, <2>3 DEF Tools!Places
<1>5. CASE c.tool = "verification_run" /\ c.id
  <2>1. Tools!Checked(c) = <<"verifications", "card">>
    BY <1>5 DEF Tools!Checked, Tools!FileTools, Tools!ReportTools, Tools!Card
  <2>2. p \in {"verifications", "card"}
    BY <1>5 DEF Tools!Writes, Tools!FileTools, Tools!ReportTools, Tools!Card
  <2>3. \A i \in {1, 2} : i \in DOMAIN Tools!Checked(c)
    BY <2>1
  <2>4. QED BY <2>1, <2>2, <2>3 DEF Tools!Places
<1>6. CASE c.tool = "report_generate" /\ c.id
  <2>1. /\ DOMAIN Tools!Checked(c) = 1..2
        /\ Tools!Checked(c)[1] = "reports" /\ Tools!Checked(c)[2] = "card"
    BY <1>6 DEF Tools!Checked, Tools!FileTools, Tools!ReportTools
  <2>2. p \in {"reports", "card"}
    BY <1>6 DEF Tools!Writes, Tools!FileTools, Tools!ReportTools
  <2>3. \A i \in {1, 2} : i \in DOMAIN Tools!Checked(c)
    BY <2>1
  <2>4. QED BY <2>1, <2>2, <2>3 DEF Tools!Places
<1>7. CASE c.tool = "shud_run" /\ c.id
  <2>1. /\ DOMAIN Tools!Checked(c) = 1..4
        /\ Tools!Checked(c)[1] = "runs" /\ Tools!Checked(c)[2] = "stacks"
        /\ Tools!Checked(c)[3] = "provenance" /\ Tools!Checked(c)[4] = "card"
    BY <1>7 DEF Tools!Checked, Tools!FileTools, Tools!ReportTools
  <2>2. p \in {"runs", "stacks", "provenance", "card"}
    BY <1>7 DEF Tools!Writes, Tools!FileTools, Tools!ReportTools
  <2>3. \A i \in {1, 2, 3, 4} : i \in DOMAIN Tools!Checked(c)
    BY <2>1
  <2>4. QED BY <2>1, <2>2, <2>3 DEF Tools!Places
<1>8. CASE c.tool = "shud_run" /\ ~c.id
  <2>1. Tools!Checked(c) = <<"runs", "stacks", "provenance">>
    BY <1>8 DEF Tools!Checked, Tools!FileTools, Tools!ReportTools
  <2>2. p \in {"runs", "stacks", "provenance"}
    BY <1>8 DEF Tools!Writes, Tools!FileTools, Tools!ReportTools
  <2>3. \A i \in {1, 2, 3} : i \in DOMAIN Tools!Checked(c)
    BY <2>1
  <2>4. QED BY <2>1, <2>2, <2>3 DEF Tools!Places
<1>9. CASE c.tool \in Tools!ReportTools /\ c.id
  <2>1. Tools!Checked(c) = <<"report", "page", "card">>
    BY <1>9 DEF Tools!Checked, Tools!FileTools, Tools!ReportTools
  <2>2. p \in {"report", "page", "card"}
    BY <1>9 DEF Tools!Writes, Tools!FileTools, Tools!ReportTools
  <2>3. \A i \in {1, 2, 3} : i \in DOMAIN Tools!Checked(c)
    BY <2>1
  <2>4. QED BY <2>1, <2>2, <2>3 DEF Tools!Places
<1>10. CASE c.tool \in Tools!FileTools /\ c.writes
  <2>1. Tools!Checked(c) = <<"file">>
    BY <1>10 DEF Tools!Checked, Tools!FileTools, Tools!ReportTools
  <2>2. p \in {"file"}
    BY <1>10 DEF Tools!Writes, Tools!FileTools, Tools!ReportTools
  <2>3. \A i \in {1} : i \in DOMAIN Tools!Checked(c)
    BY <2>1
  <2>4. QED BY <2>1, <2>2, <2>3 DEF Tools!Places
<1>11. QED BY <1>1, <1>2, <1>3, <1>4, <1>5, <1>6, <1>7, <1>8, <1>9, <1>10 DEF Tools!Writes

(* The raw guard passes a call only when none of its places is raw, and none*)
(* fails to resolve.                                                      *)
LEMMA TargetsDecide ==
  ASSUME NEW c, \A p \in Tools!Places : where[p] \in {"outside", "raw", "governance", "unknown", "broken"}
  PROVE  /\ Tools!Targets(c) = Tools!Pass \/ Tools!Targets(c).kind \in {"deny", "throw"}
         /\ Tools!Targets(c) = Tools!Pass =>
              \A i \in DOMAIN Tools!Checked(c) :
                Tools!Checked(c)[i] \in Tools!Places =>
                where[Tools!Checked(c)[i]] \in {"outside", "governance"}
<1> DEFINE bad == {i \in DOMAIN Tools!Checked(c) : where[Tools!Checked(c)[i]] \notin {"outside", "governance"}}
<1>1. CASE bad = {}
  BY <1>1 DEF Tools!Targets
<1>2. CASE bad # {}
  <2>1. Tools!Min(bad) \in bad BY <1>2, FewPlaces, LeastPlace
  <2>2. Tools!Targets(c) = Tools!At(c, Tools!Checked(c)[Tools!Min(bad)], Tools!Deny("raw-immutable"), Tools!Pass)
    BY <1>2 DEF Tools!Targets
  <2>3. PICK i \in DOMAIN Tools!Checked(c) :
          i = Tools!Min(bad) /\ where[Tools!Checked(c)[i]] \notin {"outside", "governance"}
    BY <2>1
  <2>4. Tools!Checked(c)[i] \in Tools!Places
    BY FewPlaces
  <2>5. QED
    BY <2>2, <2>3, <2>4 DEF Tools!At, Tools!Deny, Tools!Pass, Tools!Unresolved, Tools!Throw
<1>3. QED BY <1>1, <1>2

(* What the raw guard let through or put to the user.                     *)
LEMMA RawAnswers ==
  ASSUME NEW c, \A p \in Tools!Places : where[p] \in {"outside", "raw", "governance", "unknown", "broken"},
         c = call, Identified,
         Tools!DecideRawAccess(c).kind \in {"next", "ask"}
  PROVE  /\ \A p \in Tools!Writes(c) : where[p] = "outside"
         /\ c.tool = "shud_run" /\ Tools!DecideRawAccess(c).kind = "next" => where["input"] = "outside"
         /\ c.tool \in Tools!ReportTools => Tools!DecideRawAccess(c).kind = "next"
<1>1. CASE c.tool \in Tools!ShellTools
  BY <1>1 DEF Tools!Writes, Tools!ShellTools, Tools!ReportTools, Tools!FileTools
<1>2. CASE c.tool \notin Tools!ShellTools
  <2>1. Tools!Targets(c) = Tools!Pass
    <3>1. CASE c.tool = "shud_run"
      BY <1>2, <3>1, TargetsDecide
         DEF Tools!DecideRawAccess, Tools!DecideKnownRawAccess, Tools!DecideRun, Tools!ReportTools
    <3>2. CASE c.tool \in Tools!ReportTools \cup {"report_generate"}
      BY <1>2, <3>2, TargetsDecide
         DEF Tools!DecideRawAccess, Tools!DecideKnownRawAccess, Tools!DecideReportAccess,
             Tools!Unresolved, Tools!Deny, Tools!Throw, Tools!ReportTools
    <3>3. CASE c.tool \notin Tools!ReportTools \cup {"report_generate", "shud_run"}
      BY <1>2, <3>3, TargetsDecide DEF Tools!DecideRawAccess, Tools!DecideKnownRawAccess
    <3>4. QED BY <3>1, <3>2, <3>3
  <2>2. ASSUME NEW p \in Tools!Writes(c) PROVE where[p] = "outside"
    <3>1. where[p] \in {"outside", "governance"} /\ p \in Tools!Places
      BY <2>1, TargetsDecide, WritesAreChecked
    <3>2. CASE c.tool \in Tools!FileTools
      <4>1. p = "file" /\ c.writes
        BY <3>2 DEF Tools!Writes, Tools!FileTools, Tools!ReportTools
      <4>2. Tools!DecideKnownRawAccess(c) = Tools!Pass
        BY <2>1, <3>2 DEF Tools!DecideKnownRawAccess, Tools!FileTools, Tools!ReportTools, Tools!ShellTools
      <4>3. Tools!DecideGovernance(c).kind \in {"next", "ask"}
        BY <4>2 DEF Tools!DecideRawAccess, Tools!Pass
      <4>4. where["file"] = "governance" => Tools!DecideGovernance(c) = Tools!Deny("governance-immutable")
        BY <3>2, <4>1 DEF Tools!DecideGovernance, Tools!FileTools, Tools!ShellTools
      <4>5. QED BY <3>1, <4>1, <4>3, <4>4 DEF Tools!Deny
    <3>3. CASE c.tool \notin Tools!FileTools
      BY <1>2, <3>1, <3>3 DEF Identified
    <3>4. QED BY <3>2, <3>3
  <2>3. ASSUME c.tool = "shud_run", Tools!DecideRawAccess(c).kind = "next"
        PROVE  where["input"] = "outside"
    <3>1. Tools!DecideKnownRawAccess(c).kind = "next"
      BY <2>3 DEF Tools!DecideRawAccess
    <3>2. Tools!At(c, "input", Tools!Ask("raw-read-provenance"), Tools!Pass).kind = "next"
      <4>1. Tools!DecideKnownRawAccess(c) = Tools!DecideRun(c)
        BY <2>3 DEF Tools!DecideKnownRawAccess, Tools!ReportTools, Tools!ShellTools
      <4>2. Tools!DecideRun(c) = Tools!At(c, "input", Tools!Ask("raw-read-provenance"), Tools!Pass)
        BY <2>1 DEF Tools!DecideRun
      <4>3. QED BY <3>1, <4>1, <4>2
    <3>3. where["input"] \in {"outside", "governance"}
      <4>1. "input" \in Tools!Places BY DEF Tools!Places
      <4>2. QED
        BY <3>2, <4>1 DEF Tools!At, Tools!Ask, Tools!Deny, Tools!Unresolved, Tools!Throw
    <3>4. QED
      BY <2>3, <3>3 DEF Identified, Tools!Places, Tools!FileTools, Tools!ShellTools
  <2>4. c.tool \in Tools!ReportTools => Tools!DecideRawAccess(c).kind = "next"
    <3>1. ASSUME c.tool \in Tools!ReportTools PROVE Tools!DecideKnownRawAccess(c).kind # "ask"
      <4>1. Tools!DecideKnownRawAccess(c) = Tools!DecideReportAccess(c)
        BY <3>1 DEF Tools!DecideKnownRawAccess, Tools!ReportTools, Tools!ShellTools
      <4>2. Tools!DecideReportAccess(c) \in {Tools!Unresolved(c), Tools!Pass}
        BY <2>1 DEF Tools!DecideReportAccess
      <4>3. QED
        BY <4>1, <4>2 DEF Tools!Unresolved, Tools!Deny, Tools!Throw, Tools!Pass
    <3>2. Tools!DecideGovernance(c).kind # "ask"
      BY DEF Tools!DecideGovernance, Tools!Deny, Tools!Pass
    <3>3. QED BY <3>1, <3>2 DEF Tools!DecideRawAccess
  <2>5. QED BY <2>2, <2>3, <2>4
<1>3. QED BY <1>1, <1>2 DEF Tools!ShellTools, Tools!ReportTools

(* What the policy gate let through or put to the user.                   *)
LEMMA GateAnswers ==
  ASSUME NEW c, Tools!GateDecision(c).kind \in {"next", "ask"}
  PROVE  /\ \A i \in DOMAIN rules : rules[i].result.decision = "allow"
         /\ c.tool \in {"report_submit", "report_decide"} => Tools!GateDecision(c).kind = "ask"
<1>1. Tools!EvaluatePolicyGate(rules).kind \in {"next", "deny", "throw"}
  BY DEF Tools!EvaluatePolicyGate, Tools!Verdict, Tools!Pass, Tools!Deny, Tools!Throw
<1>2. Tools!EvaluatePolicyGate(rules).kind = "next"
  <2>1. Tools!EvaluatePolicyGate(rules).kind = "throw" =>
          Tools!GateDecision(c) = Tools!Deny("policy-evaluation-failed")
    BY DEF Tools!GateDecision
  <2>2. Tools!EvaluatePolicyGate(rules).kind = "deny" =>
          Tools!GateDecision(c) = Tools!EvaluatePolicyGate(rules)
    BY DEF Tools!GateDecision
  <2>3. QED BY <1>1, <2>1, <2>2 DEF Tools!Deny
<1>3. {i \in DOMAIN rules : rules[i].result.decision # "allow"} = {}
  BY <1>2 DEF Tools!EvaluatePolicyGate, Tools!Verdict, Tools!Deny, Tools!Throw
<1>4. c.tool \in {"report_submit", "report_decide"} => Tools!GateDecision(c).kind = "ask"
  BY <1>2 DEF Tools!GateDecision, Tools!ReportApproval, Tools!Ask
<1>5. QED BY <1>3, <1>4

(* The invariant holds when no call is under way.                         *)
LEMMA ToolsInit == Tools!Init => ToolsInv
BY DEF Tools!Init, Tools!Outside, ToolsInv, Identified, Stages, Granted

(* The raw guard answers the same as long as the call does not change.    *)
LEMMA SameCall ==
  ASSUME UNCHANGED <<call, where>>
  PROVE  Tools!DecideRawAccess(call)' = Tools!DecideRawAccess(call)
BY DEF Tools!DecideRawAccess, Tools!DecideKnownRawAccess, Tools!DecideReportAccess, Tools!DecideRun,
       Tools!DecideRawShell, Tools!DecideGovernance, Tools!Targets, Tools!At

(* So does the policy gate.                                               *)
LEMMA SameRules ==
  ASSUME UNCHANGED <<call, rules>>
  PROVE  /\ Tools!GateDecision(call)' = Tools!GateDecision(call)
         /\ Surfaced' = Surfaced
BY DEF Tools!GateDecision, Surfaced

(* Every stage of a call keeps the invariant.                             *)
LEMMA ToolsStep ==
  ASSUME ToolsInv, Tools!Next \/ UNCHANGED toolVars
  PROVE  ToolsInv'
<1> USE DEF ToolsInv
<1>1. CASE UNCHANGED toolVars
  BY <1>1, SameCall, SameRules DEF toolVars, Identified, Stages, Granted, RawAllows
<1>2. ASSUME NEW tool \in Tools!Tools, Tools!Called(tool) PROVE ToolsInv'
  <2>1. Identified'
    <3>1. PICK found \in [Tools!Looked(call') -> Tools!Found(call')] :
            where' = [p \in Tools!Places |-> IF p \in Tools!Looked(call') THEN found[p] ELSE "outside"]
      BY <1>2 DEF Tools!Called
    <3>2. \A p \in Tools!Places : where'[p] \in Tools!Found(call') \cup {"outside"}
      BY <3>1
    <3>3. QED BY <3>2 DEF Identified, Tools!Found
  <2>2. Stages'
    BY <1>2 DEF Tools!Called, Stages
  <2>3. QED BY <1>2, <2>1, <2>2 DEF Tools!Called, Stages
<1>3. CASE Tools!RawGuard
  <2> DEFINE d == Tools!DecideRawAccess(call)
  <2>1. /\ gpc = "called" /\ UNCHANGED <<call, where, rules>>
        /\ Tools!Decide(d, "raw", "permitted")
    BY <1>3 DEF Tools!RawGuard
  <2>2. d' = d BY <2>1, SameCall
  <2> HIDE DEF d
  <2>3. Identified' BY <2>1 DEF Identified
  <2>4. Surfaced' = Surfaced BY <2>1, SameRules
  <2>5. \/ d.kind = "next" /\ gpc' = "permitted" /\ ruling' = "none" /\ asker' = asker
        \/ d.kind = "ask" /\ gpc' = "asked" /\ asker' = "raw" /\ ruling' = ruling
        \/ gpc' = "end" /\ ruling' = "refused" /\ asker' = asker
    BY <2>1 DEF Tools!Decide
  <2>6. Stages' BY <2>1, <2>4, <2>5 DEF Stages
  <2>7. RawAllows' = (d.kind = "next") BY <2>2 DEF RawAllows, d
  <2>8. Granted' <=> \/ asker' = "raw" /\ d.kind = "ask"
                     \/ /\ RawAllows' /\ Surfaced'
                        /\ \/ asker' = "gate" /\ Tools!GateDecision(call)'.kind = "ask"
                           \/ asker' = "none" /\ gpc' = "end" /\ Tools!GateDecision(call)'.kind = "next"
    BY <2>2 DEF Granted, d
  <2>9. QED BY <2>1, <2>3, <2>5, <2>6, <2>7, <2>8 DEF Stages
<1>4. CASE Tools!PolicyContext
  <2>1. /\ gpc = "permitted" /\ rules' \in Tools!Contexts(call)
        /\ UNCHANGED <<gpc, call, where, asker, ruling>>
    BY <1>4 DEF Tools!PolicyContext
  <2>2. Surfaced'
    <3>1. CASE rules' = <<Tools!SurfaceRule(call)>>
      <4>1. 1 \in DOMAIN rules' /\ rules'[1] = Tools!SurfaceRule(call) BY <3>1
      <4>2. QED BY <4>1, <2>1 DEF Surfaced, Tools!SurfaceRule, Tools!Surface
    <3>2. ASSUME NEW r \in Tools!Rules, rules' = <<Tools!SurfaceRule(call), r>> PROVE Surfaced'
      <4>1. 1 \in DOMAIN rules' /\ rules'[1] = Tools!SurfaceRule(call) BY <3>2
      <4>2. QED BY <4>1, <2>1 DEF Surfaced, Tools!SurfaceRule, Tools!Surface
    <3>3. ASSUME NEW r \in Tools!Rules, rules' = <<r, Tools!SurfaceRule(call)>> PROVE Surfaced'
      <4>1. 2 \in DOMAIN rules' /\ rules'[2] = Tools!SurfaceRule(call) BY <3>3
      <4>2. QED BY <4>1, <2>1 DEF Surfaced, Tools!SurfaceRule, Tools!Surface
    <3>4. QED BY <2>1, <3>1, <3>2, <3>3 DEF Tools!Contexts
  <2>3. Identified' BY <2>1 DEF Identified
  <2>4. RawAllows' = RawAllows BY <2>1, SameCall DEF RawAllows
  <2>5. QED BY <2>1, <2>2, <2>3, <2>4 DEF Stages
<1>5. CASE Tools!PolicyGate
  <2> DEFINE d == Tools!GateDecision(call)
  <2>1. /\ gpc = "permitted" /\ rules # <<>> /\ UNCHANGED <<call, where, rules>>
        /\ Tools!Decide(d, "gate", "end")
    BY <1>5 DEF Tools!PolicyGate
  <2>2. d' = d /\ Surfaced' = Surfaced BY <2>1, SameRules
  <2>3. Identified' BY <2>1 DEF Identified
  <2>4. RawAllows' BY <2>1, SameCall DEF RawAllows
  <2> HIDE DEF d
  <2>5. \/ d.kind = "next" /\ gpc' = "end" /\ ruling' = "runs" /\ asker' = asker
        \/ d.kind = "ask" /\ gpc' = "asked" /\ asker' = "gate" /\ ruling' = ruling
        \/ gpc' = "end" /\ ruling' = "refused" /\ asker' = asker
    BY <2>1 DEF Tools!Decide
  <2>6. Stages' BY <2>1, <2>2, <2>5 DEF Stages
  <2>7. gpc' = "asked" \/ ruling' = "runs" => Granted'
    BY <2>1, <2>2, <2>4, <2>5 DEF Stages, Granted, d
  <2>8. QED BY <2>3, <2>4, <2>5, <2>6, <2>7
<1>6. CASE Tools!Answered
  <2>1. /\ gpc = "asked" /\ gpc' = "end" /\ ruling' \in {"runs", "refused"}
        /\ UNCHANGED <<call, where, rules, asker>>
    BY <1>6 DEF Tools!Answered
  <2>2. Surfaced' = Surfaced /\ Tools!GateDecision(call)' = Tools!GateDecision(call)
    BY <2>1, SameRules
  <2>3. Tools!DecideRawAccess(call)' = Tools!DecideRawAccess(call)
    BY <2>1, SameCall
  <2>4. Identified' BY <2>1 DEF Identified
  <2>5. Stages' BY <2>1, <2>2 DEF Stages
  <2>6. Granted' BY <2>1, <2>2, <2>3 DEF Granted, RawAllows
  <2>7. QED BY <2>1, <2>4, <2>5, <2>6
<1>7. QED BY <1>1, <1>2, <1>3, <1>4, <1>5, <1>6 DEF Tools!Next

(* The invariant is enough.                                               *)
LEMMA ToolsKeep == ToolsInv => Tools!LetThrough
<1>1. SUFFICES ASSUME ToolsInv, ruling = "runs"
               PROVE  /\ \A p \in Tools!Writes(call) : where[p] = "outside"
                      /\ call.tool = "shud_run" /\ where["input"] # "outside" => asker = "raw"
                      /\ call.tool \in {"report_submit", "report_decide"} => asker = "gate"
                      /\ asker # "raw" => /\ \A i \in DOMAIN rules : rules[i].result.decision = "allow"
                                          /\ Tools!Surface(call)
                                          /\ Tools!SurfaceRule(call) \in Tools!ToSet(rules)
  BY DEF Tools!LetThrough
<1>2. Granted /\ Identified BY <1>1 DEF ToolsInv
<1>3. Tools!DecideRawAccess(call).kind \in {"next", "ask"} BY <1>2 DEF Granted, RawAllows
<1>4. /\ \A p \in Tools!Writes(call) : where[p] = "outside"
      /\ call.tool = "shud_run" /\ where["input"] # "outside" => asker = "raw"
  BY <1>2, <1>3, RawAnswers DEF Granted, RawAllows, Identified
<1>5. call.tool \in {"report_submit", "report_decide"} => asker = "gate"
  BY <1>2, <1>3, RawAnswers, GateAnswers DEF Granted, RawAllows, Identified, Tools!ReportTools
<1>6. ASSUME asker # "raw"
      PROVE  /\ \A i \in DOMAIN rules : rules[i].result.decision = "allow"
             /\ Tools!Surface(call) /\ Tools!SurfaceRule(call) \in Tools!ToSet(rules)
  <2>1. \A i \in DOMAIN rules : rules[i].result.decision = "allow"
    BY <1>2, <1>6, GateAnswers DEF Granted
  <2>2. PICK i \in DOMAIN rules : rules[i] = Tools!SurfaceRule(call)
    BY <1>2, <1>6 DEF Granted, Surfaced
  <2>3. Tools!SurfaceRule(call).result.decision = "allow" BY <2>1, <2>2
  <2>4. QED BY <2>1, <2>2, <2>3 DEF Tools!SurfaceRule, Tools!Result, Tools!ToSet
<1>7. QED BY <1>4, <1>5, <1>6

------------------------------------------------------------------------------
(* The case of a namespace (NamespaceCase).                                *)

(* While the scan looks at an entry, and while it looks again.              *)
Rechecks == {"recheck", "other again", "after"}
Looking == {"original", "other", "spelling", "alias"} \cup Rechecks

(* Names and their stamps: a change of the names is newer than any before,   *)
(* and a folding directory has one entry for both spellings.                *)
StampsInv ==
  /\ clock \in Nat /\ dirChanged \in 0..clock
  /\ npc # "before" => dirSeen \in 0..dirChanged
  /\ entries \in [Cases!Names -> 0..2]
  /\ folds \in BOOLEAN /\ (folds => \E n \in Cases!Names : entries[n] = 0)

(* As long as the directory has the stamp the scan began with, the entry it  *)
(* looks at is there under the inode it had.                                *)
EntryInv ==
  /\ npc \in Looking => entryName \in Cases!Names
  /\ npc \in Looking /\ dirChanged = dirSeen => entries[entryName] # 0
  /\ npc \in Looking \ {"original"} /\ dirChanged = dirSeen => original.ino = entries[entryName]

(* What has been found out is so unless the directory has changed since, and *)
(* an alias once seen is one whatever changes.                              *)
FoundInv ==
  /\ npc \in Rechecks => /\ namespace \in {"unknown", "sensitive", "insensitive"}
                         /\ namespace = "insensitive" => folds
                         /\ namespace = "sensitive" /\ dirChanged = dirSeen => ~folds
  /\ Cases!NamespaceTrue

CasesInv == npc \in {"before", "read", "done"} \cup Looking /\ StampsInv /\ EntryInv /\ FoundInv

(* The invariant holds at the start.                                        *)
LEMMA CasesInit == Cases!Init => CasesInv
<1> SUFFICES ASSUME Cases!Init PROVE CasesInv
  OBVIOUS
<1>1. folds => \E n \in Cases!Names : entries[n] = 0
  BY DEF Cases!Init
<1>2. npc = "before" /\ clock = 0 /\ dirChanged = 0
  BY DEF Cases!Init
<1>3. entries \in [Cases!Names -> 0..2] /\ folds \in BOOLEAN
  BY DEF Cases!Init
<1>4. QED
  BY <1>1, <1>2, <1>3 DEF CasesInv, StampsInv, EntryInv, FoundInv, Looking, Rechecks, Cases!NamespaceTrue

(* The other spelling of a name is a name, and its other spelling the first. *)
LEMMA Spellings ==
  ASSUME NEW n \in Cases!Names
  PROVE  /\ Cases!Alternate(n) \in Cases!Names /\ Cases!Alternate(n) # n
         /\ \A m \in Cases!Names : m = n \/ m = Cases!Alternate(n)
BY DEF Cases!Names, Cases!Alternate

(* In a folding directory the other spelling leads to the entry itself.      *)
LEMMA FoldsToEntry ==
  ASSUME StampsInv, folds, NEW n \in Cases!Names, entries[n] # 0
  PROVE  Cases!Found(Cases!Alternate(n)) = entries[n]
<1>1. entries[Cases!Alternate(n)] = 0
  BY Spellings DEF StampsInv
<1>2. Cases!Alternate(Cases!Alternate(n)) = n
  BY DEF Cases!Names, Cases!Alternate
<1>3. QED BY <1>1, <1>2 DEF Cases!Found

(* What lstat says of the inode is what the name leads to.                  *)
LEMMA LstatInode ==
  ASSUME NEW n
  PROVE  Cases!Lstat(n).ino = Cases!Found(n) /\ (Cases!Lstat(n) = Cases!Gone => Cases!Found(n) = 0)
<1> DEFINE f == Cases!Found(n)
           stat == [ino |-> f, kind |-> inodes[f].kind, links |-> inodes[f].links,
                    changed |-> inodes[f].changed]
<1>1. CASE f = 0
  BY <1>1 DEF Cases!Lstat, Cases!Gone
<1>2. CASE f # 0
  <2>1. Cases!Lstat(n) = stat
    BY <1>2 DEF Cases!Lstat
  <2>2. stat.ino = f /\ Cases!Gone.ino = 0
    BY DEF Cases!Gone
  <2>3. QED BY <1>2, <2>1, <2>2
<1>3. QED BY <1>1, <1>2

(* A step of the scan keeps the invariant.                                  *)
LEMMA ScanStep ==
  ASSUME CasesInv, UNCHANGED Cases!treeVars,
         Cases!Before \/ Cases!Read \/ Cases!Original \/ Cases!Other \/ Cases!Spelling
           \/ Cases!Alias \/ Cases!Recheck \/ Cases!OtherAgain \/ Cases!After
  PROVE  CasesInv'
<1>0. /\ UNCHANGED <<folds, keepsCase, entries, inodes, dirChanged, clock>>
      /\ StampsInv /\ EntryInv /\ FoundInv
  BY DEF Cases!treeVars, CasesInv
<1> USE DEF Looking, Rechecks
<1>1. CASE Cases!Before
  <2>1. npc' = "read" /\ dirSeen' = dirChanged
    BY <1>1 DEF Cases!Before
  <2>2. dirChanged \in 0..dirChanged
    BY <1>0 DEF StampsInv
  <2>3. StampsInv'
    BY <1>0, <2>1, <2>2 DEF StampsInv
  <2>4. QED BY <2>1, <2>3 DEF CasesInv, EntryInv, FoundInv, Cases!NamespaceTrue
<1> DEFINE same == UNCHANGED <<entryName, dirSeen, original>>
<1>x. ASSUME npc \in Looking, npc' \in Looking \ {"original"}, npc # "original",
             same, FoundInv'
      PROVE  CasesInv'
  BY <1>0, <1>x DEF CasesInv, StampsInv, EntryInv
<1>y. ASSUME npc # "before", npc' = "done", dirSeen' = dirSeen, Cases!NamespaceTrue'
      PROVE  CasesInv'
  BY <1>0, <1>y DEF CasesInv, StampsInv, EntryInv, FoundInv
<1>2. CASE Cases!Read
  <2>0. npc = "read" /\ dirSeen' = dirSeen
    BY <1>2 DEF Cases!Read, Cases!Scanning
  <2>1. CASE npc' = "done" /\ namespace' = "unknown"
    BY <1>y, <2>0, <2>1 DEF Cases!NamespaceTrue
  <2>2. CASE npc' = "original" /\ entryName' \in Cases!Names /\ entries[entryName'] # 0
    BY <1>0, <2>0, <2>2 DEF CasesInv, StampsInv, EntryInv, FoundInv, Cases!NamespaceTrue
  <2>3. \/ npc' = "done" /\ namespace' = "unknown"
        \/ \E n \in Cases!Names : entries[n] # 0 /\ entryName' = n /\ npc' = "original"
    BY <1>2 DEF Cases!Read, Cases!Ends
  <2>4. QED BY <2>1, <2>2, <2>3
<1>3. CASE Cases!Original
  <2>0. npc = "original" /\ UNCHANGED <<entryName, dirSeen>> /\ original' = Cases!Lstat(entryName)
    BY <1>3 DEF Cases!Original, Cases!Scanning
  <2>1. \/ npc' = "done" /\ namespace' = "unknown"
        \/ npc' = "read"
        \/ npc' = "other"
    BY <1>3 DEF Cases!Original, Cases!Ends
  <2>2. CASE npc' = "done" /\ namespace' = "unknown"
    BY <1>y, <2>0, <2>2 DEF Cases!NamespaceTrue
  <2>3. CASE npc' = "read"
    BY <1>0, <2>0, <2>3 DEF CasesInv, StampsInv, EntryInv, FoundInv, Cases!NamespaceTrue
  <2>4. CASE npc' = "other"
    <3>1. dirChanged = dirSeen => original'.ino = entries[entryName]
      BY <1>0, <2>0, LstatInode DEF EntryInv, Cases!Found
    <3>2. QED BY <1>0, <2>0, <2>4, <3>1 DEF CasesInv, StampsInv, EntryInv, FoundInv, Cases!NamespaceTrue
  <2>5. QED BY <2>1, <2>2, <2>3, <2>4
<1>4. CASE Cases!Other
  <2>0. npc = "other" /\ same /\ other' = Cases!Lstat(Cases!Alternate(entryName))
    BY <1>4 DEF Cases!Other, Cases!Scanning
  <2>1. \/ other' = Cases!Gone /\ namespace' = "sensitive" /\ npc' = "recheck"
        \/ namespace' = "unknown" /\ npc' = "recheck"
        \/ other'.ino # original.ino /\ namespace' = "sensitive" /\ npc' = "recheck"
        \/ npc' = "spelling" /\ UNCHANGED namespace
    BY <1>4 DEF Cases!Other
  <2>2. ASSUME namespace' = "sensitive", npc' = "recheck", dirChanged = dirSeen, folds
        PROVE  FALSE
    <3>1. entryName \in Cases!Names /\ entries[entryName] # 0 /\ original.ino = entries[entryName]
      BY <1>0, <2>0, <2>2 DEF EntryInv
    <3>2. Cases!Found(Cases!Alternate(entryName)) = entries[entryName]
      BY <1>0, <2>2, <3>1, FoldsToEntry
    <3>3. other'.ino = original.ino /\ other' # Cases!Gone
      BY <2>0, <3>1, <3>2, LstatInode
    <3>4. QED BY <2>1, <2>2, <3>3
  <2>3. FoundInv'
    BY <1>0, <2>0, <2>1, <2>2 DEF FoundInv, Cases!NamespaceTrue
  <2>4. QED BY <1>x, <2>0, <2>1, <2>3
<1>5. CASE Cases!Spelling
  <2>0. npc = "spelling" /\ same
    BY <1>5 DEF Cases!Spelling, Cases!Scanning
  <2>1. CASE npc' = "done" /\ namespace' = "unknown"
    BY <1>y, <2>0, <2>1 DEF Cases!NamespaceTrue
  <2>2. CASE npc' = "alias"
    <3>1. FoundInv' BY <2>2 DEF FoundInv, Cases!NamespaceTrue
    <3>2. QED BY <1>x, <2>0, <2>2, <3>1
  <2>3. QED BY <1>5, <2>1, <2>2 DEF Cases!Spelling, Cases!Ends
<1>6. CASE Cases!Alias
  <2>0. npc = "alias" /\ same
    BY <1>6 DEF Cases!Alias, Cases!Scanning
  <2>1. CASE npc' = "done" /\ namespace' = "unknown"
    BY <1>y, <2>0, <2>1 DEF Cases!NamespaceTrue
  <2>2. CASE /\ npc' = "recheck" /\ Cases!Realpath(Cases!Alternate(entryName)) # "none"
             /\ \/ namespace' = "unknown"
                \/ /\ namespace' = "insensitive"
                   /\ Cases!Realpath(Cases!Alternate(entryName)) = entryName
    <3>1. entryName \in Cases!Names
      BY <1>0, <2>0 DEF EntryInv
    <3>2. Cases!Alternate(entryName) # entryName
      BY <3>1, Spellings
    <3>3. ~folds => Cases!Realpath(Cases!Alternate(entryName)) # entryName
      BY <2>2, <3>2 DEF Cases!Realpath, Cases!Found
    <3>4. FoundInv'
      BY <1>0, <2>2, <3>3 DEF FoundInv, Cases!NamespaceTrue
    <3>5. QED BY <1>x, <2>0, <2>2, <3>4
  <2>3. QED BY <1>6, <2>1, <2>2 DEF Cases!Alias, Cases!Ends
<1>7. CASE Cases!Recheck
  <2>0. npc = "recheck" /\ same
    BY <1>7 DEF Cases!Recheck, Cases!Scanning
  <2>1. \/ npc' = "done" /\ namespace' = "unknown"
        \/ npc' = "other again" /\ namespace' \in {namespace, "unknown"}
    BY <1>7 DEF Cases!Recheck, Cases!Ends
  <2>2. CASE npc' = "done" /\ namespace' = "unknown"
    BY <1>y, <2>0, <2>2 DEF Cases!NamespaceTrue
  <2>3. CASE npc' = "other again" /\ namespace' \in {namespace, "unknown"}
    <3>1. FoundInv' BY <1>0, <2>0, <2>3 DEF FoundInv, Cases!NamespaceTrue
    <3>2. QED BY <1>x, <2>0, <2>3, <3>1
  <2>4. QED BY <2>1, <2>2, <2>3
<1>8. CASE Cases!OtherAgain
  <2>1. npc = "other again" /\ same /\ npc' = "after" /\ namespace' \in {namespace, "unknown"}
    BY <1>8 DEF Cases!OtherAgain, Cases!Scanning
  <2>2. FoundInv' BY <1>0, <2>1 DEF FoundInv, Cases!NamespaceTrue
  <2>3. QED BY <1>x, <2>1, <2>2
<1>9. CASE Cases!After
  <2>1. /\ npc = "after" /\ npc' = "done" /\ dirSeen' = dirSeen
        /\ namespace' = IF dirChanged = dirSeen THEN namespace ELSE "unknown"
    BY <1>9 DEF Cases!After, Cases!Scanning, Cases!Ends
  <2>2. Cases!NamespaceTrue'
    BY <1>0, <2>1 DEF FoundInv, Cases!NamespaceTrue
  <2>3. QED BY <1>y, <2>1, <2>2
<1>10. QED BY <1>1, <1>2, <1>3, <1>4, <1>5, <1>6, <1>7, <1>8, <1>9

(* The names change with a stamp of their own, and others do not make a       *)
(* folding directory hold both spellings.                                   *)
LEMMA OthersMove ==
  ASSUME StampsInv, Cases!Others
  PROVE  /\ StampsInv' /\ UNCHANGED <<folds, Cases!scanVars>> /\ npc # "done"
         /\ (entries' = entries /\ dirChanged' = dirChanged) \/ dirChanged' > dirChanged
<1>1. clock' = clock + 1 /\ npc # "done" /\ UNCHANGED <<folds, Cases!scanVars>>
  BY DEF Cases!Others
<1>2. PICK n \in Cases!Names :
        Cases!Create(n) \/ Cases!Remove(n) \/ Cases!Rename(n) \/ Cases!Link(n) \/ Cases!Write(n)
  BY DEF Cases!Others
<1> DEFINE alt == Cases!Alternate(n)
<1>3. alt \in Cases!Names /\ alt # n /\ \A m \in Cases!Names : m = n \/ m = alt
  BY Spellings
<1> HIDE DEF alt
<1>4. \/ entries' = entries /\ dirChanged' = dirChanged
      \/ /\ dirChanged' = clock'
         /\ \/ \E i \in 1..2 : Cases!Found(n) = 0 /\ entries' = [entries EXCEPT ![n] = i]
            \/ entries' = [entries EXCEPT ![n] = 0]
            \/ entries' = [entries EXCEPT ![n] = 0, ![alt] = entries[n]]
            \/ ~folds /\ entries' = [entries EXCEPT ![alt] = entries[n]]
  <2>1. CASE Cases!Create(n)
    BY <2>1 DEF Cases!Create, Cases!Renamed, Cases!Inodes
  <2>2. CASE Cases!Remove(n)
    BY <2>2 DEF Cases!Remove, Cases!Renamed
  <2>3. CASE Cases!Rename(n)
    BY <2>3 DEF Cases!Rename, Cases!Renamed, alt
  <2>4. CASE Cases!Link(n)
    BY <2>4 DEF Cases!Link, Cases!Renamed, alt
  <2>5. CASE Cases!Write(n)
    BY <2>5 DEF Cases!Write
  <2>6. QED BY <1>2, <2>1, <2>2, <2>3, <2>4, <2>5
<1>5. Cases!Found(n) = 0 => entries[n] = 0 /\ (folds => entries[alt] = 0)
  BY DEF Cases!Found, alt
<1>6. entries' \in [Cases!Names -> 0..2] /\ (folds => \E m \in Cases!Names : entries'[m] = 0)
  <2>1. CASE entries' = entries
    BY <2>1 DEF StampsInv
  <2>2. ASSUME NEW i \in 1..2, Cases!Found(n) = 0, entries' = [entries EXCEPT ![n] = i]
        PROVE  entries' \in [Cases!Names -> 0..2] /\ (folds => \E m \in Cases!Names : entries'[m] = 0)
    BY <1>3, <1>5, <2>2 DEF StampsInv
  <2>3. CASE entries' = [entries EXCEPT ![n] = 0]
    BY <1>3, <2>3 DEF StampsInv
  <2>4. CASE entries' = [entries EXCEPT ![n] = 0, ![alt] = entries[n]]
    BY <1>3, <2>4 DEF StampsInv
  <2>5. CASE ~folds /\ entries' = [entries EXCEPT ![alt] = entries[n]]
    BY <1>3, <2>5 DEF StampsInv
  <2>6. QED BY <1>4, <2>1, <2>2, <2>3, <2>4, <2>5
<1>7. folds' = folds /\ npc' = npc /\ dirSeen' = dirSeen
  BY <1>1 DEF Cases!scanVars
<1>8. QED BY <1>1, <1>4, <1>6, <1>7 DEF StampsInv

(* What others do meanwhile keeps it too: if the names moved, the stamp did. *)
LEMMA OthersStep ==
  ASSUME CasesInv, Cases!Others
  PROVE  CasesInv'
<1>1. /\ StampsInv' /\ UNCHANGED folds /\ npc # "done"
      /\ UNCHANGED <<npc, entryName, dirSeen, original, namespace>>
      /\ (entries' = entries /\ dirChanged' = dirChanged) \/ dirChanged' > dirChanged
  BY OthersMove DEF CasesInv, Cases!scanVars
<1>2. npc = "before" \/ (dirChanged' = dirSeen => entries' = entries /\ dirChanged = dirSeen)
  BY <1>1 DEF CasesInv, StampsInv
<1>3. QED BY <1>1, <1>2 DEF CasesInv, EntryInv, FoundInv, Looking, Rechecks, Cases!NamespaceTrue

(* The invariant is inductive.                                             *)
LEMMA CasesStep == CasesInv /\ (Cases!Next \/ UNCHANGED caseVars) => CasesInv'
<1>1. ASSUME CasesInv, UNCHANGED caseVars PROVE CasesInv'
  BY <1>1 DEF CasesInv, StampsInv, EntryInv, FoundInv, Cases!NamespaceTrue, caseVars
<1>2. ASSUME CasesInv, Cases!Next PROVE CasesInv'
  <2>1. CASE Cases!Others
    BY <1>2, <2>1, OthersStep
  <2>2. CASE Cases!Before \/ Cases!Read \/ Cases!Original \/ Cases!Other \/ Cases!Spelling
               \/ Cases!Alias \/ Cases!Recheck \/ Cases!OtherAgain \/ Cases!After
    <3>1. UNCHANGED Cases!treeVars
      BY <2>2 DEF Cases!Before, Cases!Read, Cases!Original, Cases!Other, Cases!Spelling,
          Cases!Alias, Cases!Recheck, Cases!OtherAgain, Cases!After, Cases!Scanning
    <3>2. QED BY <1>2, <2>2, <3>1, ScanStep
  <2>3. QED BY <1>2, <2>1, <2>2 DEF Cases!Next
<1>3. QED BY <1>1, <1>2

------------------------------------------------------------------------------
(* The four invariants hold in every reachable state, each part on its own.   *)
Inv == MasksInv /\ PoliciesInv /\ ToolsInv /\ CasesInv

THEOREM Invariance == GuardsSpec => []Inv
<1>1. GuardsInit => Inv
  <2>1. GuardsInit => Masks!Init /\ Policies!Init /\ Tools!Init /\ Cases!Init
    BY DEF GuardsInit
  <2>2. QED BY <2>1, MasksInit, PoliciesInit, ToolsInit, CasesInit DEF Inv
<1>2. Inv /\ [GuardsNext]_guardVars => Inv'
  <2>1. [GuardsNext]_guardVars => Masks!Next \/ UNCHANGED maskVars BY DEF GuardsNext, guardVars
  <2>2. [GuardsNext]_guardVars => Policies!Next \/ UNCHANGED policyVars BY DEF GuardsNext, guardVars
  <2>3. [GuardsNext]_guardVars => Tools!Next \/ UNCHANGED toolVars BY DEF GuardsNext, guardVars
  <2>c. [GuardsNext]_guardVars => Cases!Next \/ UNCHANGED caseVars BY DEF GuardsNext, guardVars
  <2>4. Inv /\ [GuardsNext]_guardVars => MasksInv' BY <2>1, MasksStep DEF Inv
  <2>5. Inv /\ [GuardsNext]_guardVars => PoliciesInv' BY <2>2, PoliciesStep DEF Inv
  <2>6. Inv /\ [GuardsNext]_guardVars => ToolsInv' BY <2>3, ToolsStep DEF Inv
  <2>7. Inv /\ [GuardsNext]_guardVars => CasesInv' BY <2>c, CasesStep DEF Inv
  <2>8. QED BY <2>4, <2>5, <2>6, <2>7 DEF Inv
<1>3. QED BY <1>1, <1>2, PTL DEF GuardsSpec

(* The masks of the roles are in force whichever order the host calls back   *)
(* in (role-restrict.ts).                                                  *)
THEOREM MasksStayInForce == GuardsSpec => []MasksInForce
<1>1. Inv => MasksInForce BY MasksKeep DEF Inv
<1>2. QED BY <1>1, Invariance, PTL

(* The coder's plugin writes policies only where they are its own to write   *)
(* (coder-approval.ts).                                                    *)
THEOREM PoliciesAreOwn == GuardsSpec => []OwnPoliciesOnly
<1>1. Inv => OwnPoliciesOnly BY PoliciesKeep DEF Inv
<1>2. QED BY <1>1, Invariance, PTL

(* A call that ran was let through by the raw guard and by the policy gate,   *)
(* or put to the user, and what the guard had found out of a namespace was    *)
(* true of it whatever others did there meanwhile (decide.ts, evaluate.ts,    *)
(* policy-gate.ts).                                                        *)
THEOREM CallsAreLetThrough == GuardsSpec => []LetThrough
<1>1. Inv => LetThrough BY ToolsKeep DEF Inv, CasesInv, FoundInv, LetThrough
<1>2. QED BY <1>1, Invariance, PTL
------------------------------------------------------------------------------
(* The first-task gate (FirstTask), which starts one host.                  *)
USE OneHost

(* What the driver knows of its host, and how the gate ends.                *)
HostRecord == [state : HostState, stamp : BOOLEAN, exited : BOOLEAN,
               signal : {"none", "SIGTERM", "SIGKILL"},
               end : {"none", "clean", "killed", "crashed"}]
OutcomeRecord == [failed : BOOLEAN, unsafe : BOOLEAN, errors : Nat, verdict : {"none", "PASS", "FAIL"}]

(* A log keeps what it has and holds the new entry at its end.             *)
LEMMA LogGrows ==
  ASSUME NEW S, NEW l \in Seq(S), NEW w \in S
  PROVE  /\ Append(l, w) \in Seq(S) /\ Len(Append(l, w)) = Len(l) + 1 /\ Len(l) \in Nat
         /\ DOMAIN l = 1..Len(l) /\ DOMAIN Append(l, w) = 1..Len(l) + 1
         /\ \A i \in 1..Len(l) : Append(l, w)[i] = l[i]
         /\ Append(l, w)[Len(l) + 1] = w
BY AppendProperties, LenProperties

(* The execution of the run: a code is published after the solver ended.   *)
ExecutionInv ==
  /\ GroupTypeOK
  /\ leader \in {"none", "boot", "ending", "zero", "nonzero"} => ~solver
  /\ exitFile # "none" => leader \in {"ending", "gone", "alien", "vacated"} /\ ~solver
  /\ job = "absent" => leader = "none"

(* The host is dead once the driver has stopped it without an error.       *)
Past == {"discover", "runs", "term", "kill", "killed", "verdict", "done"}
Asking == {"approvals", "prompt", "chain", "final-root", "final-worker", "verify"}
DriverInv ==
  /\ host \in [{1} -> HostRecord] /\ outcome \in OutcomeRecord
  /\ known \in [root : BOOLEAN, worker : BOOLEAN]
  /\ host[1].exited => host[1].state = "dead"
  /\ pc \in {"prepare", "spawn"} => host[1].state = "none"
  /\ pc \in Past /\ outcome.errors = 0 => ~Alive(1)
  /\ pc \in Asking => known.root

(* What the agents log, and what a word in a log means.                    *)
Word == {<<"task">>, <<"subagent">>, <<"catalog">>, <<"settled">>, <<"run">>, <<"end">>}
        \cup {<<k, c>> : k \in {"wait", "collect"}, c \in Code}
        \cup {<<"generate", r>> : r \in Reports}
        \cup {<<"validate", r, ok>> : r \in Reports, ok \in BOOLEAN}
        \cup {<<"submit", e, r>> : e \in Events, r \in Reports}
        \cup {<<"asked", e>> : e \in Events}
        \cup {<<"decided", e, v>> : e \in Events, v \in Value}
        \cup {<<"result", e, ok>> : e \in Events, ok \in BOOLEAN}
Begins(read, s) == \A i \in DOMAIN read : i \in DOMAIN s /\ read[i] = s[i]
About(s) ==
  /\ \A i \in DOMAIN s : s[i][1] \in {"asked", "decided", "result"} =>
       \E j \in DOMAIN s : s[j][1] = "submit" /\ s[j][2] = s[i][2]
  /\ \A i, j \in DOMAIN s : s[i][1] = "submit" /\ s[j][1] = "submit" /\ s[i][2] = s[j][2] => i = j
WorkerInv ==
  /\ worker \in Seq(Word) /\ DOMAIN ev = {"root", "worker"} /\ Begins(ev.worker, worker)
  /\ \A i \in DOMAIN worker : worker[i][1] \in {"wait", "collect"} =>
       exitFile # "none" /\ worker[i][2] = exitFile
RootInv ==
  /\ root \in Seq(Word) /\ DOMAIN ev = {"root", "worker"} /\ Begins(ev.root, root)
  /\ \A i \in DOMAIN root : root[i] = <<"catalog">> => child \in {"known", "two"}
  /\ About(root)
  
(* A report is accepted once, and upon an approval if one was given before. *)
ReportsInv ==
  /\ report \in [Reports -> [status : {"none", "draft", "reviewed", "accepted"},
                             runs : SUBSET {"run"}, decided : BOOLEAN]]
  /\ drawn \in [Reports -> {"none", "early", "collected"}]
  /\ taken \in [Reports -> {"none", "approved", "unasked"}]
  /\ \A r \in Reports : taken[r] # "none" => report[r].status = "accepted"
  /\ \A r \in Reports : report[r].runs = {"run"} => drawn[r] = "collected"
AcceptedUpon(s, e, r) ==
  \E i, j, k \in DOMAIN s :
    /\ s[i] = <<"submit", e, r>> /\ s[j] = <<"decided", e, "allowed-once">> /\ j < k
    /\ s[k] = <<"result", e, TRUE>>
ApprovedInv == \A e \in Events, r \in Reports : AcceptedUpon(root, e, r) => taken[r] = "approved"

(* The agents change neither the driver nor what it has read.               *)
AgentsLeave == UNCHANGED <<exitFile, pc, host, owned, outcome, known, ev>>
LEMMA AgentsFrame == AgentsAct => AgentsLeave
<1> SUFFICES ASSUME AgentsAct PROVE AgentsLeave
  OBVIOUS
<1> USE DEF AgentsLeave
<1>1. CASE CreateTask \/ Delegate \/ Catalog \/ Admit \/ Launch
  BY <1>1 DEF CreateTask, AgentStep, agentUnchanged, driverVars,
      groupVars, peerVars, Delegate, Catalog, Admit, Launch,
      Spawn, worldVars
<1>2. CASE RunAnswers \/ RunAgain \/ Wait \/ Collect \/ EndTurn
  BY <1>2 DEF RunAnswers, agentUnchanged, driverVars, groupVars,
      peerVars, RunAgain, AgentStep, Wait, Collect, EndTurn
<1>3. CASE Settled
  BY <1>3 DEF Settled, agentUnchanged, driverVars, groupVars, peerVars
<1>4. ASSUME NEW r \in Reports, Generate(r) \/ Validate(r)
      PROVE  AgentsLeave
  <2>1. UNCHANGED <<exitFile, pc, host, owned, outcome, known, ev>>
    BY <1>4, Zenon DEF Generate, AgentStep, agentUnchanged, driverVars,
        groupVars, peerVars, Validate
  <2>2. QED BY <2>1
<1>5. ASSUME NEW e \in Events, Ask(e) \/ Resolve(e) \/ Cancel(e)
                               \/ Denied(e)
      PROVE  AgentsLeave
  <2>1. UNCHANGED <<exitFile, pc, host, owned, outcome, known, ev>>
    BY <1>5, Zenon DEF Ask, agentUnchanged, driverVars, groupVars,
        Resolve, peerVars, Cancel, AgentStep, worldVars, Denied
  <2>2. QED BY <2>1
<1>6. ASSUME NEW e \in Events, NEW r \in Reports,
             Submit(e, r)
               \/ Accept(e, r, "approved") \/ Accept(e, r, "unasked")
      PROVE  AgentsLeave
  <2>1. UNCHANGED <<exitFile, pc, host, owned, outcome, known, ev>>
    BY <1>6, Zenon DEF Submit, AgentStep, agentUnchanged, driverVars,
        groupVars, peerVars, Accept
  <2>2. QED BY <2>1
<1>7. QED BY <1>1, <1>2, <1>3, <1>4, <1>5, <1>6 DEF AgentsAct

(* The driver changes nothing of the task.                                  *)
DriverLeaves == UNCHANGED <<exitFile, root, worker, child, job, extra, report, card, drawn, taken>>
LEMMA DriverFrame == Driver \/ GiveUp => DriverLeaves
<1> SUFFICES ASSUME Driver \/ GiveUp PROVE DriverLeaves
  OBVIOUS
<1> USE DEF DriverLeaves
<1>1. CASE Stop
  BY <1>1, Zenon DEF Stop, StopHost, Stopped, StopSignal, StopFails,
      driverUnchanged, groupVars, peerVars, worldVars
<1>2. CASE RunStopped
  BY <1>2, Zenon DEF RunStopped, StopRun, StopGroup, GroupQuiet,
      GroupUnproved, groupVars, peerVars, worldVars
<1>3. CASE Prepare \/ StartHost \/ Ready \/ CreateSession
           \/ ApprovalsOpen
  BY <1>3 DEF Prepare, Move, driverUnchanged, groupVars, peerVars,
      worldVars, StartHost, SpawnHost, Ready, CreateSession,
      OpenPeer, ApprovalsOpen, Opened
<1>4. CASE ApprovalsFail \/ ApprovalsThrow \/ Prompt \/ Round
           \/ FinalRoot
  BY <1>4 DEF ApprovalsFail, BeginClose, driverUnchanged, driverVars,
      groupVars, worldVars, ApprovalsThrow, Move, peerVars, Prompt,
      Round, FinalRoot
<1>5. CASE FinalWorker \/ Verify \/ Close \/ ClosePeer \/ Closed
  BY <1>5 DEF FinalWorker, Move, driverUnchanged, groupVars, peerVars,
      worldVars, Verify, Close, BeginClose, ClosePeer, PeerClose,
      DrainTimesOut, Drained, Shut, Joined, driverVars, Closed
<1>6. CASE Discover \/ CleanUpRuns \/ Judge \/ GiveUp
  BY <1>6 DEF Discover, Move, driverUnchanged, groupVars, peerVars,
      worldVars, CleanUpRuns, Judge, Verdict, GiveUp
<1>7. QED BY <1>1, <1>2, <1>3, <1>4, <1>5, <1>6 DEF Driver

(* The connection changes nothing else.                                     *)
PeerLeaves == UNCHANGED <<leader, solver, signal, wrapperPid, exitFile, pc, host, owned, outcome,
                          root, worker, child, job, extra, report, card, drawn, taken, known, ev>>
LEMMA PeerFrame == PeerMoves \/ PeerWorks \/ PeerBreaks => PeerLeaves
<1> SUFFICES ASSUME PeerMoves \/ PeerWorks \/ PeerBreaks PROVE PeerLeaves
  OBVIOUS
<1> USE DEF PeerLeaves
<1>1. CASE PeerMoves \/ PeerWorks \/ PeerBreaks
  BY <1>1 DEF PeerMoves, Connect, Receive, TakeAnswer, SocketCloses,
      peerUnchanged, driverVars, groupVars, worldVars, PeerWorks,
      StartLink, DecideReport, Decide, Answered, PeerBreaks,
      LinkFails
<1>2. QED BY <1>1

(* Hosts and the execution change by themselves.                            *)
HostLeaves == UNCHANGED <<pc, owned, outcome, peer, socket, frames, clientId, failure, timedOut,
                          aborted, seen, cancelled, chain, link, wire, answer, posts, root, worker, child,
                          job, extra, report, card, drawn, taken, known, ev>>
LEMMA HostFrame ==
  HostServes \/ HostObeys \/ HostCrashes \/ HostExits \/ RunStep => HostLeaves
<1> SUFFICES ASSUME HostServes \/ HostObeys \/ HostCrashes \/ HostExits \/ RunStep
             PROVE  HostLeaves
  OBVIOUS
<1> USE DEF HostLeaves
<1>1. CASE HostServes \/ HostObeys \/ HostCrashes \/ HostExits
           \/ RunStep
  BY <1>1 DEF HostServes, groupVars, peerVars, worldVars, HostObeys,
      Obeys, Ends, HostCrashes, HostExits, ChildEvent, RunStep,
      driverVars
<1>2. QED BY <1>1

(* Every step keeps what is known of the execution.                         *)
LEMMA ExecutionStep == ExecutionInv /\ Next => ExecutionInv'
<1> SUFFICES ASSUME ExecutionInv, Next PROVE ExecutionInv'
  OBVIOUS
<1> USE DEF ExecutionInv, GroupTypeOK, LeaderState, Living, Code
<1>1. CASE Admit
  BY <1>1 DEF Admit, AgentStep, agentUnchanged, driverVars, groupVars,
      peerVars
<1>2. CASE Launch
  BY <1>2 DEF Launch, Spawn, driverVars, peerVars, worldVars
<1>3. CASE RunAnswers
  BY <1>3 DEF RunAnswers, agentUnchanged, driverVars, groupVars, peerVars
<1>4. CASE Collect
  BY <1>4 DEF Collect, AgentStep, agentUnchanged, driverVars, groupVars,
      peerVars
<1>5. CASE RunStep
  <2>1. /\ job' = job
        /\ PublishPid \/ PublishExit \/ WrapperExits \/ Deliver
           \/ PidReused \/ AlienExits \/ \E code \in Code : SolverEnds(code)
    BY <1>5 DEF RunStep, GroupStep, worldVars
  <2>2. CASE PublishPid
    BY <2>1, <2>2 DEF PublishPid
  <2>3. CASE PublishExit
    BY <2>1, <2>3 DEF PublishExit
  <2>4. CASE WrapperExits
    BY <2>1, <2>4 DEF WrapperExits, Pending
  <2>5. CASE Deliver
    BY <2>1, <2>5 DEF Deliver
  <2>6. CASE PidReused
    BY <2>1, <2>6 DEF PidReused
  <2>7. CASE AlienExits
    BY <2>1, <2>7 DEF AlienExits
  <2>8. ASSUME NEW code \in Code, SolverEnds(code) PROVE ExecutionInv'
    BY <2>1, <2>8 DEF SolverEnds, Pending
  <2>9. QED BY <2>1, <2>2, <2>3, <2>4, <2>5, <2>6, <2>7, <2>8
<1>6. CASE RunStopped
  BY <1>6 DEF RunStopped, StopRun, StopGroup, GroupQuiet, GroupUnproved,
      groupVars, peerVars, worldVars
<1>7. CASE CreateTask \/ Delegate \/ Catalog \/ RunAgain \/ Wait
  BY <1>7 DEF CreateTask, AgentStep, agentUnchanged, driverVars,
      groupVars, peerVars, Delegate, Catalog, RunAgain, Wait
<1>8. CASE EndTurn \/ Settled \/ HostServes \/ HostObeys \/ HostCrashes
  BY <1>8 DEF EndTurn, AgentStep, agentUnchanged, driverVars, groupVars,
      peerVars, Settled, HostServes, worldVars, HostObeys, Obeys,
      Ends, HostCrashes
<1>9. CASE HostExits \/ Prepare \/ StartHost \/ Ready \/ CreateSession
  BY <1>9 DEF HostExits, ChildEvent, groupVars, peerVars, worldVars,
      Prepare, Move, driverUnchanged, StartHost, SpawnHost, Ready,
      CreateSession, OpenPeer
<1>10. CASE ApprovalsOpen \/ ApprovalsFail \/ ApprovalsThrow \/ Prompt
            \/ Round
  BY <1>10 DEF ApprovalsOpen, Move, Opened, driverUnchanged, groupVars,
      worldVars, ApprovalsFail, BeginClose, driverVars, ApprovalsThrow,
      peerVars, Prompt, Round
<1>11. CASE FinalRoot \/ FinalWorker \/ Verify \/ Close \/ ClosePeer
  BY <1>11 DEF FinalRoot, Move, driverUnchanged, groupVars, peerVars,
      worldVars, FinalWorker, Verify, Close, BeginClose, ClosePeer,
      PeerClose, DrainTimesOut, Drained, Shut, Joined, driverVars
<1>12. CASE Closed \/ Stop \/ Discover \/ CleanUpRuns \/ Judge
  BY <1>12 DEF Closed, Move, driverUnchanged, groupVars, peerVars,
      worldVars, Stop, StopHost, Stopped, StopSignal, StopFails,
      Discover, CleanUpRuns, Judge, Verdict
<1>13. CASE GiveUp
  BY <1>13 DEF GiveUp, driverUnchanged, groupVars, peerVars, worldVars
<1>14. ASSUME NEW r \in Reports, Generate(r) \/ Validate(r)
      PROVE  ExecutionInv'
  <2>1. UNCHANGED <<leader, solver, signal, wrapperPid, exitFile, job>>
    BY <1>14, Zenon DEF Generate, AgentStep, agentUnchanged, driverVars,
        groupVars, peerVars, Validate
  <2>2. QED BY <2>1
<1>15. ASSUME NEW e \in Events, Ask(e) \/ Resolve(e) \/ Cancel(e)
                                \/ Denied(e)
      PROVE  ExecutionInv'
  <2>1. UNCHANGED <<leader, solver, signal, wrapperPid, exitFile, job>>
    BY <1>15, Zenon DEF Ask, agentUnchanged, driverVars, groupVars,
        Resolve, peerVars, Cancel, AgentStep, worldVars, Denied
  <2>2. QED BY <2>1
<1>16. ASSUME NEW e \in Events, NEW r \in Reports,
              Submit(e, r)
                \/ Accept(e, r, "approved") \/ Accept(e, r, "unasked")
      PROVE  ExecutionInv'
  <2>1. UNCHANGED <<leader, solver, signal, wrapperPid, exitFile, job>>
    BY <1>16, Zenon DEF Submit, AgentStep, agentUnchanged, driverVars,
        groupVars, peerVars, Accept
  <2>2. QED BY <2>1
<1>17. CASE PeerMoves \/ PeerWorks \/ PeerBreaks
  BY <1>17, PeerFrame DEF PeerLeaves
<1>18. QED BY <1>1, <1>2, <1>3, <1>4, <1>5, <1>6, <1>7, <1>8, <1>9, <1>10, <1>11, <1>12, <1>13,
    <1>14, <1>15, <1>16, <1>17 DEF Next, World, Driver, AgentsAct

(* Every step keeps what is known of host and driver.                       *)
LEMMA DriverStep == DriverInv /\ Next => DriverInv'
<1> SUFFICES ASSUME DriverInv, Next PROVE DriverInv'
  OBVIOUS
<1> USE DEF DriverInv, Past, Asking, Alive, HostRecord, HostState, OutcomeRecord
<1>1. CASE HostServes
  BY <1>1 DEF HostServes, groupVars, peerVars, worldVars
<1>2. CASE HostObeys
  BY <1>2 DEF HostObeys, Obeys, Ends, groupVars, peerVars, worldVars
<1>3. CASE HostCrashes
  BY <1>3 DEF HostCrashes, Ends, groupVars, peerVars, worldVars
<1>4. CASE HostExits
  BY <1>4 DEF HostExits, ChildEvent, groupVars, peerVars, worldVars
<1>5. CASE Prepare
  BY <1>5 DEF Prepare, Move, driverUnchanged, groupVars, peerVars,
      worldVars
<1>6. CASE StartHost
  <2>1. PICK stamp \in BOOLEAN : host' = [host EXCEPT ![1].state = "booting", ![1].stamp = stamp]
    BY <1>6 DEF StartHost, SpawnHost
  <2>2. pc = "spawn" /\ pc' = "ready" /\ outcome' = outcome /\ known' = known
    BY <1>6 DEF StartHost, SpawnHost, Move
  <2>3. [host[1] EXCEPT !.state = "booting", !.stamp = stamp] \in HostRecord
    OBVIOUS
  <2>4. host' = [host EXCEPT ![1] = [host[1] EXCEPT !.state = "booting", !.stamp = stamp]]
    BY <2>1
  <2>5. host' \in [{1} -> HostRecord]
    BY <2>3, <2>4
  <2>6. host'[1].exited => host'[1].state = "dead"
    BY <2>2, <2>4
  <2>7. QED BY <2>2, <2>5, <2>6
<1>7. CASE Ready
  BY <1>7 DEF Ready, Move, driverUnchanged, groupVars, peerVars,
      worldVars
<1>8. CASE CreateSession
  BY <1>8 DEF CreateSession, Move, OpenPeer, driverUnchanged, groupVars,
      worldVars
<1>9. CASE ApprovalsOpen
  BY <1>9 DEF ApprovalsOpen, Move, Opened, driverUnchanged, groupVars,
      worldVars
<1>10. CASE ApprovalsThrow
  BY <1>10 DEF ApprovalsThrow, Move, driverUnchanged, groupVars,
      peerVars, worldVars
<1>11. CASE Prompt
  BY <1>11 DEF Prompt, Move, driverUnchanged, groupVars, peerVars,
      worldVars
<1>12. CASE Round
  BY <1>12 DEF Round, driverUnchanged, groupVars, peerVars, worldVars
<1>13. CASE FinalRoot
  BY <1>13 DEF FinalRoot, Move, driverUnchanged, groupVars, peerVars,
      worldVars
<1>14. CASE FinalWorker
  BY <1>14 DEF FinalWorker, Move, driverUnchanged, groupVars, peerVars,
      worldVars
<1>15. CASE Verify
  BY <1>15 DEF Verify, Move, driverUnchanged, groupVars, peerVars,
      worldVars
<1>16. CASE Close
  BY <1>16 DEF Close, BeginClose, driverUnchanged, groupVars, peerVars,
      worldVars
<1>17. CASE Closed
  BY <1>17 DEF Closed, Move, driverUnchanged, groupVars, peerVars,
      worldVars
<1>18. CASE Stop
  <2>1. pc = "stop" /\ known' = known
    BY <1>18 DEF Stop
  <2>0. Stopped(1, "discover") \/ StopSignal(1) \/ StopFails(1, "discover")
    BY <1>18 DEF Stop, StopHost
  <2>2. CASE Stopped(1, "discover")
    <3>1. pc' = "discover" /\ host' = host /\ outcome' = outcome
      BY <2>2 DEF Stopped
    <3>2. host[1].state \notin {"booting", "serving"}
      BY <2>2 DEF Stopped, Started
    <3>3. QED BY <2>1, <3>1, <3>2
  <2>3. CASE StopSignal(1)
    <3>1. PICK sig \in {"SIGTERM", "SIGKILL"} : host' = [host EXCEPT ![1].signal = sig]
      BY <2>3 DEF StopSignal
    <3>2. pc' = pc /\ outcome' = outcome
      BY <2>3 DEF StopSignal
    <3>3. \A h \in HostRecord : [h EXCEPT !.signal = sig] \in HostRecord
      OBVIOUS
    <3>4. host' = [host EXCEPT ![1] = [host[1] EXCEPT !.signal = sig]]
      BY <3>1
    <3>5. host' \in [{1} -> HostRecord] /\ host'[1].exited = host[1].exited /\ host'[1].state = host[1].state
      BY <3>3, <3>4
    <3>6. QED BY <2>1, <3>2, <3>5
  <2>4. CASE StopFails(1, "discover")
    <3>1. pc' = "discover" /\ host' = host /\ outcome' = [outcome EXCEPT !.errors = outcome.errors + 1]
      BY <2>4 DEF StopFails
    <3>2. outcome' \in OutcomeRecord /\ outcome'.errors # 0
      BY <3>1
    <3>3. QED BY <2>1, <3>1, <3>2
  <2>5. QED BY <2>0, <2>2, <2>3, <2>4
<1>19. CASE Discover
  BY <1>19 DEF Discover, Move, driverUnchanged, groupVars, peerVars,
      worldVars
<1>20. CASE CleanUpRuns
  <2>1. /\ pc = "runs" /\ pc' \in {"term", "verdict"} /\ host' = host /\ known' = known
        /\ \E n \in {0, 1} : outcome' = [outcome EXCEPT !.errors = outcome.errors + n]
    <3>1. \A found : CleanUp(found).errors \in {0, 1}
      BY DEF CleanUp
    <3>2. QED BY <1>20, <3>1 DEF CleanUpRuns
  <2>2. PICK n \in {0, 1} : outcome' = [outcome EXCEPT !.errors = outcome.errors + n]
    BY <2>1
  <2>3. outcome' \in OutcomeRecord /\ (outcome'.errors = 0 => outcome.errors = 0)
    BY <2>2
  <2>4. QED BY <2>1, <2>3
<1>21. CASE RunStopped
  BY <1>21 DEF RunStopped, StopRun, StopGroup, GroupQuiet, GroupUnproved,
      groupVars, peerVars, worldVars
<1>22. CASE Judge
  BY <1>22 DEF Judge, Verdict, Move, driverUnchanged, groupVars,
      peerVars, worldVars
<1>23. CASE GiveUp
  BY <1>23 DEF GiveUp, driverUnchanged, groupVars, peerVars, worldVars
<1>24. CASE RunStep \/ ApprovalsFail \/ ClosePeer
  BY <1>24 DEF RunStep, driverVars, peerVars, worldVars, ApprovalsFail,
      BeginClose, driverUnchanged, groupVars, ClosePeer, PeerClose,
      DrainTimesOut, Drained, Shut, Joined
<1>25. CASE AgentsAct
  BY <1>25, AgentsFrame DEF AgentsLeave
<1>26. CASE PeerMoves \/ PeerWorks \/ PeerBreaks
  BY <1>26, PeerFrame DEF PeerLeaves
<1>27. QED BY <1>1, <1>2, <1>3, <1>4, <1>5, <1>6, <1>7, <1>8, <1>9, <1>10, <1>11, <1>12, <1>13,
    <1>14, <1>15, <1>16, <1>17, <1>18, <1>19, <1>20, <1>21, <1>22, <1>23, <1>24, <1>25, <1>26 DEF
    Next, World, Driver

(* An exit code is published once.                                          *)
LEMMA ExitKept == ExecutionInv /\ exitFile # "none" /\ Next => exitFile' = exitFile
<1> SUFFICES ASSUME ExecutionInv, exitFile # "none", Next PROVE exitFile' = exitFile
  OBVIOUS
<1>1. CASE RunStep
  <2>1. PublishPid \/ PublishExit \/ WrapperExits \/ Deliver
        \/ PidReused \/ AlienExits \/ \E code \in Code : SolverEnds(code)
    BY <1>1 DEF RunStep, GroupStep
  <2>2. leader \notin Code
    BY DEF ExecutionInv, Code
  <2>3. QED BY <2>1, <2>2 DEF PublishPid, PublishExit, WrapperExits, Deliver,
      PidReused, AlienExits, SolverEnds
<1>2. CASE HostServes \/ HostObeys \/ HostCrashes \/ HostExits
  BY <1>2 DEF HostServes, groupVars, peerVars, worldVars, HostObeys,
      Obeys, Ends, HostCrashes, HostExits, ChildEvent
<1>3. CASE AgentsAct
  BY <1>3, AgentsFrame DEF AgentsLeave
<1>4. CASE Driver \/ GiveUp
  BY <1>4, DriverFrame DEF DriverLeaves
<1>5. CASE PeerMoves \/ PeerWorks \/ PeerBreaks
  BY <1>5, PeerFrame DEF PeerLeaves
<1>6. QED BY <1>1, <1>2, <1>3, <1>4, <1>5 DEF Next, World

(* What the agents log are words.                                           *)
LEMMA Words ==
  /\ {<<"task">>, <<"subagent">>, <<"catalog">>, <<"settled">>, <<"run">>, <<"end">>} \subseteq Word
  /\ \A k \in {"wait", "collect"}, c \in {"zero", "nonzero"} : <<k, c>> \in Word
  /\ \A r \in Reports : <<"generate", r>> \in Word /\ \A ok \in BOOLEAN : <<"validate", r, ok>> \in Word
  /\ \A e \in Events, r \in Reports : <<"submit", e, r>> \in Word
  /\ \A e \in Events : <<"asked", e>> \in Word
  /\ \A e \in Events, v \in {"allowed-once", "next"} : <<"decided", e, v>> \in Word
  /\ \A e \in Events, ok \in BOOLEAN : <<"result", e, ok>> \in Word
<1>1. {<<"task">>, <<"subagent">>, <<"catalog">>, <<"settled">>, <<"run">>, <<"end">>}
         \subseteq Word
  BY DEF Word
<1>2. \A k \in {"wait", "collect"}, c \in Code : <<k, c>> \in Word
  BY DEF Word
<1>3. \A r \in Reports : <<"generate", r>> \in Word /\ \A ok \in BOOLEAN : <<"validate", r, ok>> \in Word
  BY DEF Word
<1>4. \A e \in Events, r \in Reports : <<"submit", e, r>> \in Word
  BY DEF Word
<1>5. \A e \in Events : <<"asked", e>> \in Word
  BY DEF Word
<1>6. \A e \in Events, v \in Value : <<"decided", e, v>> \in Word
  BY DEF Word
<1>7. \A e \in Events, ok \in BOOLEAN : <<"result", e, ok>> \in Word
  BY DEF Word
<1>8. Code = {"zero", "nonzero"} /\ Value = {"allowed-once", "next"}
  BY DEF Code, Value
<1>9. QED BY <1>1, <1>2, <1>3, <1>4, <1>5, <1>6, <1>7, <1>8, Zenon

(* A log grows at its end.                                                  *)
LEMMA WordAppended ==
  ASSUME NEW s \in Seq(Word), NEW w \in Word, NEW t, t = Append(s, w)
  PROVE  /\ t \in Seq(Word) /\ Len(s) \in Nat /\ Len(s) + 1 \in DOMAIN t /\ t[Len(s) + 1] = w
         /\ \A i \in DOMAIN s : i \in DOMAIN t /\ t[i] = s[i] /\ i < Len(s) + 1
         /\ \A i \in DOMAIN t : i \in Nat /\ (i \in DOMAIN s \/ i = Len(s) + 1)
<1>1. /\ t \in Seq(Word) /\ Len(t) = Len(s) + 1 /\ Len(s) \in Nat
      /\ DOMAIN s = 1..Len(s) /\ DOMAIN t = 1..Len(s) + 1
      /\ \A i \in 1..Len(s) : t[i] = s[i]
      /\ t[Len(s) + 1] = w
  BY LogGrows
<1>2. QED BY <1>1

(* The worker logs the code that was published.                             *)
LEMMA WorkerLogs ==
  ASSUME WorkerInv, ev' = ev, exitFile' = exitFile, NEW w \in Word, worker' = Append(worker, w),
         w[1] \in {"wait", "collect"} => exitFile # "none" /\ w[2] = exitFile
  PROVE  WorkerInv'
<1> DEFINE t == Append(worker, w)
           n == Len(worker) + 1
<1>1. /\ t \in Seq(Word) /\ t[n] = w
      /\ \A i \in DOMAIN worker : i \in DOMAIN t /\ t[i] = worker[i]
      /\ \A i \in DOMAIN t : i \in DOMAIN worker \/ i = n
  BY WordAppended DEF WorkerInv
<1>2. worker' = t
  OBVIOUS
<1> HIDE DEF t, n
<1>3. QED BY <1>1, <1>2 DEF WorkerInv, Begins

(* The log of the worker stays true to the execution.                       *)
LEMMA WorkerStep == ExecutionInv /\ WorkerInv /\ Next => WorkerInv'
<1> SUFFICES ASSUME ExecutionInv, WorkerInv, Next PROVE WorkerInv'
  OBVIOUS
<1>0. UNCHANGED <<exitFile, worker, ev>> => WorkerInv'
  BY DEF WorkerInv, Begins
<1>1. CASE RunAnswers
  BY <1>1, Words, WorkerLogs DEF RunAnswers, agentUnchanged, driverVars,
      groupVars, peerVars
<1>2. CASE Wait
  <2>1. /\ worker' = Append(worker, <<"wait", exitFile>>) /\ ev' = ev /\ exitFile' = exitFile
        /\ exitFile # "none"
    BY <1>2 DEF Ended, Wait, agentUnchanged, driverVars, groupVars,
        peerVars
  <2>2. <<"wait", exitFile>> \in Word
    BY <2>1, Words DEF ExecutionInv, GroupTypeOK, Code
  <2>3. QED BY <2>1, <2>2, WorkerLogs
<1>3. CASE Collect
  <2>1. /\ worker' = Append(worker, <<"collect", exitFile>>) /\ ev' = ev /\ exitFile' = exitFile
        /\ exitFile # "none"
    BY <1>3 DEF Ended, Collect, AgentStep, agentUnchanged, driverVars,
        groupVars, peerVars
  <2>2. <<"collect", exitFile>> \in Word
    BY <2>1, Words DEF ExecutionInv, GroupTypeOK, Code
  <2>3. QED BY <2>1, <2>2, WorkerLogs
<1>4. CASE EndTurn
  BY <1>4, Words, WorkerLogs DEF EndTurn, AgentStep, agentUnchanged,
      driverVars, groupVars, peerVars
<1>5. CASE RunStep
  <2>1. worker' = worker /\ ev' = ev
    BY <1>5 DEF RunStep, driverVars, peerVars, worldVars
  <2>2. QED BY <2>1, ExitKept DEF WorkerInv, Begins
<1>6. CASE FinalRoot
  <2>1. ev' = [ev EXCEPT !.root = root] /\ worker' = worker /\ exitFile' = exitFile
    BY <1>6 DEF FinalRoot, Move, driverUnchanged, groupVars, peerVars,
        worldVars
  <2>2. DOMAIN ev' = {"root", "worker"} /\ ev'.worker = ev.worker
    BY <2>1 DEF WorkerInv
  <2>3. QED BY <2>1, <2>2 DEF WorkerInv, Begins
<1>7. CASE FinalWorker
  <2>1. ev' = [ev EXCEPT !.worker = worker] /\ worker' = worker /\ exitFile' = exitFile
    BY <1>7 DEF FinalWorker, Move, driverUnchanged, groupVars, peerVars,
        worldVars
  <2>2. DOMAIN ev' = {"root", "worker"} /\ ev'.worker = worker
    BY <2>1 DEF WorkerInv
  <2>3. QED BY <2>1, <2>2 DEF WorkerInv, Begins
<1>8. CASE Verify
  <2>1. ev' = Unread /\ worker' = worker /\ exitFile' = exitFile
    BY <1>8 DEF Verify, Move, driverUnchanged, groupVars, peerVars,
        worldVars
  <2>2. DOMAIN ev' = {"root", "worker"} /\ ev'.worker = << >>
    BY <2>1 DEF Unread
  <2>3. QED BY <2>1, <2>2 DEF WorkerInv, Begins
<1>9. CASE GiveUp
  <2>1. ev' = Unread /\ worker' = worker /\ exitFile' = exitFile
    BY <1>9 DEF GiveUp, driverUnchanged, groupVars, peerVars, worldVars
  <2>2. DOMAIN ev' = {"root", "worker"} /\ ev'.worker = << >>
    BY <2>1 DEF Unread
  <2>3. QED BY <2>1, <2>2 DEF WorkerInv, Begins
<1>10. CASE CreateTask \/ Delegate \/ Catalog \/ Admit \/ Launch
  <2>1. UNCHANGED <<exitFile, worker, ev>>
    BY <1>10, Zenon DEF CreateTask, AgentStep, agentUnchanged, driverVars,
        groupVars, peerVars, Delegate, Catalog, Admit, Launch,
        Spawn, worldVars
  <2>2. QED BY <2>1, <1>0
<1>11. CASE RunAgain \/ Settled \/ HostServes \/ HostObeys
            \/ HostCrashes
  <2>1. UNCHANGED <<exitFile, worker, ev>>
    BY <1>11, Zenon DEF RunAgain, AgentStep, agentUnchanged, driverVars,
        groupVars, peerVars, Settled, HostServes, worldVars,
        HostObeys, Obeys, Ends, HostCrashes
  <2>2. QED BY <2>1, <1>0
<1>12. CASE HostExits \/ Prepare \/ StartHost \/ Ready \/ CreateSession
  <2>1. UNCHANGED <<exitFile, worker, ev>>
    BY <1>12, Zenon DEF HostExits, ChildEvent, groupVars, peerVars,
        worldVars, Prepare, Move, driverUnchanged, StartHost,
        SpawnHost, Ready, CreateSession, OpenPeer
  <2>2. QED BY <2>1, <1>0
<1>13. CASE ApprovalsOpen \/ ApprovalsFail \/ ApprovalsThrow \/ Prompt
            \/ Round
  <2>1. UNCHANGED <<exitFile, worker, ev>>
    BY <1>13, Zenon DEF ApprovalsOpen, Move, Opened, driverUnchanged,
        groupVars, worldVars, ApprovalsFail, BeginClose, driverVars,
        ApprovalsThrow, peerVars, Prompt, Round
  <2>2. QED BY <2>1, <1>0
<1>14. CASE Close \/ ClosePeer \/ Closed \/ Stop \/ Discover
  <2>1. UNCHANGED <<exitFile, worker, ev>>
    BY <1>14, Zenon DEF Close, BeginClose, driverUnchanged, groupVars,
        peerVars, worldVars, ClosePeer, PeerClose, DrainTimesOut,
        Drained, Shut, Joined, driverVars, Closed, Move, Stop,
        StopHost, Stopped, StopSignal, StopFails, Discover
  <2>2. QED BY <2>1, <1>0
<1>15. CASE CleanUpRuns \/ RunStopped \/ Judge
  <2>1. UNCHANGED <<exitFile, worker, ev>>
    BY <1>15, Zenon DEF CleanUpRuns, driverUnchanged, groupVars, peerVars,
        worldVars, RunStopped, StopRun, StopGroup, GroupQuiet,
        GroupUnproved, Judge, Verdict, Move
  <2>2. QED BY <2>1, <1>0
<1>16. ASSUME NEW r \in Reports, Generate(r) \/ Validate(r)
      PROVE  WorkerInv'
  <2>1. UNCHANGED <<exitFile, worker, ev>>
    BY <1>16, Zenon DEF Generate, AgentStep, agentUnchanged, driverVars,
        groupVars, peerVars, Validate
  <2>2. QED BY <2>1, <1>0
<1>17. ASSUME NEW e \in Events, Ask(e) \/ Resolve(e) \/ Cancel(e)
                                \/ Denied(e)
      PROVE  WorkerInv'
  <2>1. UNCHANGED <<exitFile, worker, ev>>
    BY <1>17, Zenon DEF Ask, agentUnchanged, driverVars, groupVars,
        Resolve, peerVars, Cancel, AgentStep, worldVars, Denied
  <2>2. QED BY <2>1, <1>0
<1>18. ASSUME NEW e \in Events, NEW r \in Reports,
              Submit(e, r)
                \/ Accept(e, r, "approved") \/ Accept(e, r, "unasked")
      PROVE  WorkerInv'
  <2>1. UNCHANGED <<exitFile, worker, ev>>
    BY <1>18, Zenon DEF Submit, AgentStep, agentUnchanged, driverVars,
        groupVars, peerVars, Accept
  <2>2. QED BY <2>1, <1>0
<1>19. CASE PeerMoves \/ PeerWorks \/ PeerBreaks
  BY <1>19, PeerFrame, <1>0 DEF PeerLeaves
<1>20. QED BY <1>1, <1>2, <1>3, <1>4, <1>5, <1>6, <1>7, <1>8, <1>9, <1>10, <1>11, <1>12, <1>13,
    <1>14, <1>15, <1>16, <1>17, <1>18, <1>19 DEF Next, World, Driver, AgentsAct

(* What the host sends are frames.                                          *)
LEMMA FrameWords ==
  ASSUME NEW e \in Events
  PROVE  <<"ready">> \in Frame /\ <<"waterfall", e>> \in Frame /\ <<"cancel", e>> \in Frame
BY DEF Frame

(* An answer is an event with a value.                                      *)
LEMMA PostedWords ==
  ASSUME NEW e \in Events, NEW v \in Value
  PROVE  <<e, v>> \in Events \X Value /\ <<e, v>>[1] = e /\ <<e, v>>[2] = v
OBVIOUS

(* Head and tail of what is not empty.                                      *)
LEMMA Dropped ==
  ASSUME NEW S, NEW l \in Seq(S), l # << >>
  PROVE  /\ Tail(l) \in Seq(S) /\ Head(l) \in S /\ Head(l) = l[1] /\ 1 \in DOMAIN l
         /\ Len(l) \in Nat /\ DOMAIN l = 1..Len(l) /\ DOMAIN Tail(l) = 1..Len(l) - 1
         /\ \A i \in 1..Len(l) - 1 : Tail(l)[i] = l[i + 1]
         /\ \A i \in DOMAIN Tail(l) : i + 1 \in DOMAIN l /\ Tail(l)[i] = l[i + 1] /\ i + 1 # 1
<1>1. Head(l) = l[1] /\ Head(l) \in S /\ Tail(l) \in Seq(S) /\ Len(Tail(l)) = Len(l) - 1
      /\ \A i \in 1..Len(Tail(l)) : Tail(l)[i] = l[i + 1]
  BY HeadTailProperties
<1>2. Len(l) \in Nat /\ DOMAIN l = 1..Len(l) /\ Len(l) # 0
  BY LenProperties, EmptySeq
<1>3. DOMAIN Tail(l) = 1..Len(Tail(l))
  BY <1>1, LenProperties
<1>4. QED BY <1>1, <1>2, <1>3

(* A link that is not idle has its invocation at the head of the chain.    *)
Linked == link # "idle" => chain # << >>
(* The connection stays typed.                                              *)
LEMMA PeerTypesStep == PeerTypeOK /\ Linked /\ Next => PeerTypeOK'
<1> SUFFICES ASSUME PeerTypeOK, Linked, Next PROVE PeerTypeOK'
  OBVIOUS
<1>0. UNCHANGED <<peer, socket, frames, clientId, failure, timedOut, aborted, seen, cancelled,
                  chain, link, wire, answer, posts>> => PeerTypeOK'
  BY DEF PeerTypeOK
<1>1. ASSUME NEW e \in Events, Ask(e) PROVE PeerTypeOK'
  <2>1. frames' \in {frames, Append(frames, <<"waterfall", e>>)}
    BY <1>1 DEF Ask
  <2>2. frames' \in Seq(Frame)
    <3>1. frames \in Seq(Frame) /\ <<"waterfall", e>> \in Frame
      BY FrameWords DEF PeerTypeOK
    <3>2. Append(frames, <<"waterfall", e>>) \in Seq(Frame)
      BY <3>1, LogGrows
    <3>3. QED BY <2>1, <3>1, <3>2
  <2>3. UNCHANGED <<peer, socket, clientId, failure, timedOut, aborted, seen, cancelled, chain,
                    link,
                    wire, answer, posts>>
    BY <1>1 DEF Ask
  <2>4. QED BY <2>2, <2>3 DEF PeerTypeOK
<1>2. ASSUME NEW e \in Events, Cancel(e) PROVE PeerTypeOK'
  <2>1. frames' \in {frames, Append(frames, <<"cancel", e>>)} /\ answer' = [answer EXCEPT ![e] = "next"]
    BY <1>2 DEF Cancel
  <2>2. frames' \in Seq(Frame) /\ answer' \in [Events -> Value \cup {"none"}]
    <3>1. frames \in Seq(Frame) /\ <<"cancel", e>> \in Frame
      BY FrameWords DEF PeerTypeOK
    <3>2. Append(frames, <<"cancel", e>>) \in Seq(Frame)
      BY <3>1, LogGrows
    <3>3. frames' \in Seq(Frame)
      BY <2>1, <3>1, <3>2
    <3>4. QED BY <2>1, <3>3 DEF PeerTypeOK, Value
  <2>3. UNCHANGED <<peer, socket, clientId, failure, timedOut, aborted, seen, cancelled, chain,
                    link,
                    wire, posts>>
    BY <1>2 DEF Cancel
  <2>4. QED BY <2>2, <2>3 DEF PeerTypeOK
<1>3. CASE PeerMoves
  <2>1. CASE Connect
    BY <2>1, FrameWords, AppendProperties DEF Connect, PeerTypeOK, Frame
  <2>2. CASE SocketCloses
    BY <2>2 DEF SocketCloses, PeerTypeOK
  <2>3. CASE TakeAnswer
    <3>1. PICK w \in wire : /\ wire' = wire \ {w}
                            /\ answer' = IF answer[w[1]] = "none" THEN [answer EXCEPT ![w[1]] = w[2]] ELSE answer
      BY <2>3 DEF TakeAnswer
    <3>2. w[1] \in Events /\ w[2] \in Value
      BY DEF PeerTypeOK
    <3>3. answer' \in [Events -> Value \cup {"none"}] /\ wire' \subseteq Events \X Value
      BY <3>1, <3>2 DEF PeerTypeOK
    <3>4. link' \in {"posted", link}
          /\ UNCHANGED <<peer, socket, frames, clientId, failure, timedOut, aborted, seen,
                         cancelled, chain, posts>>
      BY <2>3 DEF TakeAnswer
    <3>5. QED BY <3>3, <3>4 DEF PeerTypeOK
  <2>4. CASE Receive
    <3>1. frames' = Tail(frames) /\ frames # << >>
          /\ UNCHANGED <<peer, socket, timedOut, aborted, link, wire, answer, posts>>
      BY <2>4 DEF Receive
    <3>2. frames' \in Seq(Frame) /\ Head(frames) \in Frame
      BY <3>1, Dropped DEF PeerTypeOK
    <3>3. CASE Head(frames)[1] = "ready"
      <4>1. clientId' = TRUE /\ failure' = (failure \/ clientId) /\ UNCHANGED <<seen, cancelled,
                                                                                chain>>
        BY <2>4, <3>3 DEF Receive
      <4>2. QED BY <3>1, <3>2, <4>1 DEF PeerTypeOK
    <3>4. CASE Head(frames)[1] # "ready"
      <4>1. Head(frames)[2] \in Events /\ Head(frames)[1] \in {"waterfall", "cancel"}
        BY <3>2, <3>4 DEF Frame
      <4>2. CASE Head(frames)[1] = "cancel"
        <5>1. cancelled' = cancelled \cup {Head(frames)[2]} /\ UNCHANGED <<clientId, failure,
                                                                           seen, chain>>
          BY <2>4, <4>2 DEF Receive
        <5>2. QED BY <3>1, <3>2, <4>1, <5>1 DEF PeerTypeOK
      <4>3. CASE Head(frames)[1] = "waterfall"
        <5>1. \/ /\ seen' = seen \cup {Head(frames)[2]} /\ chain' = Append(chain, Head(frames)[2])
                 /\ UNCHANGED <<clientId, failure, cancelled>>
              \/ failure' = TRUE /\ UNCHANGED <<clientId, seen, cancelled, chain>>
          BY <2>4, <4>3 DEF Receive
        <5> DEFINE e == Head(frames)[2]
        <5>a. chain \in Seq(Events) /\ e \in Events /\ seen \subseteq Events
          BY <4>1 DEF PeerTypeOK
        <5> HIDE DEF e
        <5>b. Append(chain, e) \in Seq(Events)
          BY <5>a, LogGrows
        <5>2. chain' \in Seq(Events) /\ seen' \subseteq Events
          BY <5>1, <5>a, <5>b DEF e
        <5>3. QED BY <3>1, <3>2, <5>1, <5>2 DEF PeerTypeOK
      <4>4. QED BY <4>1, <4>2, <4>3
    <3>5. QED BY <3>3, <3>4
  <2>5. QED BY <1>3, <2>1, <2>2, <2>3, <2>4 DEF PeerMoves
<1>4. CASE CreateSession
  BY <1>4 DEF CreateSession, OpenPeer, PeerTypeOK, Peer
<1>5. CASE ApprovalsOpen
  BY <1>5 DEF ApprovalsOpen, Opened, PeerTypeOK, Peer
<1>6. CASE ApprovalsFail
  BY <1>6 DEF ApprovalsFail, BeginClose, PeerTypeOK, Peer
<1>7. CASE Close
  BY <1>7 DEF Close, BeginClose, peerVars, PeerTypeOK, Peer
<1>8. CASE ClosePeer
  <2>1. CASE DrainTimesOut
    BY <2>1 DEF DrainTimesOut, PeerTypeOK, Peer
  <2>2. CASE Drained
    BY <2>2 DEF Drained, PeerTypeOK, Peer
  <2>3. CASE Shut
    BY <2>3 DEF Shut, PeerTypeOK, Peer
  <2>4. CASE Joined
    BY <2>4 DEF Joined, PeerTypeOK, Peer
  <2>5. QED BY <1>8, <2>1, <2>2, <2>3, <2>4 DEF ClosePeer, PeerClose
<1>9. CASE PeerWorks
  <2>1. CASE StartLink
    <3>0. chain # << >>
      BY <2>1 DEF StartLink
    <3>1. \/ chain' = Tail(chain) /\ link' = "idle"
          \/ link' = "deciding" /\ chain' = chain
      <4>1. CASE Withdrawn
        BY <2>1, <4>1 DEF StartLink, Drop
      <4>2. CASE ~Withdrawn
        BY <2>1, <4>2 DEF StartLink
      <4>3. QED BY <4>1, <4>2
    <3>2. chain' \in Seq(Events)
      BY <3>0, <3>1, Dropped DEF PeerTypeOK
    <3>3. QED BY <2>1, <3>1, <3>2 DEF StartLink, PeerTypeOK
  <2>2. CASE Answered
    <3>1. chain' = Tail(chain) /\ link' = "idle" /\ chain # << >>
      BY <2>2 DEF Answered, Drop, Linked
    <3>2. chain' \in Seq(Events)
      BY <3>1, Dropped DEF PeerTypeOK
    <3>3. QED BY <2>2, <3>1, <3>2 DEF Answered, PeerTypeOK
  <2>3. CASE link = "deciding" /\ DecideReport
    <3>1. \/ chain' = Tail(chain) /\ link' = "idle" /\ UNCHANGED <<wire, posts>>
          \/ \E v \in Value : /\ wire' = wire \cup {<<Head(chain), v>>}
                                   /\ posts' = Append(posts, <<Head(chain), v>>)
                                   /\ link' = "posting" /\ chain' = chain
      BY <2>3 DEF DecideReport, Decide, Drop, Value
    <3>2. Tail(chain) \in Seq(Events) /\ Head(chain) \in Events
      BY <2>3, Dropped DEF PeerTypeOK, Linked
    <3>3. /\ chain' \in Seq(Events) /\ wire' \subseteq Events \X Value
          /\ posts' \in Seq(Events \X Value) /\ link' \in {"idle", "posting"}
      <4>1. CASE UNCHANGED <<wire, posts>> /\ chain' = Tail(chain) /\ link' = "idle"
        BY <3>2, <4>1 DEF PeerTypeOK
      <4>2. ASSUME NEW v \in Value, wire' = wire \cup {<<Head(chain), v>>},
                   posts' = Append(posts, <<Head(chain), v>>), link' = "posting" /\ chain' = chain
            PROVE  /\ chain' \in Seq(Events) /\ wire' \subseteq Events \X Value
                   /\ posts' \in Seq(Events \X Value) /\ link' \in {"idle", "posting"}
        <5> DEFINE p == <<Head(chain), v>>
        <5>1. p \in Events \X Value
          BY <3>2
        <5>2. wire' = wire \cup {p} /\ posts' = Append(posts, p) /\ posts \in Seq(Events \X Value)
          BY <4>2 DEF PeerTypeOK
        <5> HIDE DEF p
        <5>3. posts' \in Seq(Events \X Value)
          BY <5>1, <5>2, LogGrows
        <5>4. wire' \subseteq Events \X Value
          BY <5>1, <5>2 DEF PeerTypeOK
        <5>5. QED BY <5>3, <5>4, <4>2 DEF PeerTypeOK
      <4>3. QED BY <3>1, <4>1, <4>2
    <3>4. UNCHANGED <<peer, socket, frames, clientId, failure, timedOut, aborted, seen,
                      cancelled, answer>>
      BY <2>3 DEF DecideReport, Decide
    <3>5. QED BY <3>3, <3>4 DEF PeerTypeOK
  <2>4. QED BY <1>9, <2>1, <2>2, <2>3 DEF PeerWorks
<1>10. CASE PeerBreaks
  <2>1. chain' = Tail(chain) /\ link' = "idle" /\ failure' = TRUE
        /\ UNCHANGED <<peer, socket, frames, clientId, timedOut, aborted, seen, cancelled, wire,
                       answer, posts>>
    BY <1>10 DEF PeerBreaks, LinkFails, Drop
  <2>2. chain' \in Seq(Events)
    BY <1>10, <2>1, Dropped DEF PeerTypeOK, Linked, PeerBreaks, LinkFails
  <2>3. QED BY <2>1, <2>2 DEF PeerTypeOK
<1>11. CASE CreateTask \/ Delegate \/ Catalog \/ Admit \/ Launch
  <2>1. UNCHANGED <<peer, socket, frames, clientId, failure, timedOut, aborted, seen, cancelled,
                    chain, link, wire, answer, posts>>
    BY <1>11, Zenon DEF CreateTask, AgentStep, agentUnchanged, driverVars,
        groupVars, peerVars, Delegate, Catalog, Admit, Launch,
        Spawn, worldVars
  <2>2. QED BY <2>1, <1>0
<1>12. CASE RunAnswers \/ RunAgain \/ Wait \/ Collect \/ EndTurn
  <2>1. UNCHANGED <<peer, socket, frames, clientId, failure, timedOut, aborted, seen, cancelled,
                    chain, link, wire, answer, posts>>
    BY <1>12, Zenon DEF RunAnswers, agentUnchanged, driverVars, groupVars,
        peerVars, RunAgain, AgentStep, Wait, Collect, EndTurn
  <2>2. QED BY <2>1, <1>0
<1>13. CASE Settled \/ Prepare \/ StartHost \/ Ready \/ ApprovalsThrow
  <2>1. UNCHANGED <<peer, socket, frames, clientId, failure, timedOut, aborted, seen, cancelled,
                    chain, link, wire, answer, posts>>
    BY <1>13, Zenon DEF Settled, agentUnchanged, driverVars, groupVars,
        peerVars, Prepare, Move, driverUnchanged, worldVars,
        StartHost, SpawnHost, Ready, ApprovalsThrow
  <2>2. QED BY <2>1, <1>0
<1>14. CASE Prompt \/ Round \/ FinalRoot \/ FinalWorker \/ Verify
  <2>1. UNCHANGED <<peer, socket, frames, clientId, failure, timedOut, aborted, seen, cancelled,
                    chain, link, wire, answer, posts>>
    BY <1>14, Zenon DEF Prompt, Move, driverUnchanged, groupVars,
        peerVars, worldVars, Round, FinalRoot, FinalWorker, Verify
  <2>2. QED BY <2>1, <1>0
<1>15. CASE Closed \/ Stop \/ Discover \/ CleanUpRuns \/ RunStopped
  <2>1. UNCHANGED <<peer, socket, frames, clientId, failure, timedOut, aborted, seen, cancelled,
                    chain, link, wire, answer, posts>>
    BY <1>15, Zenon DEF Closed, Move, driverUnchanged, groupVars,
        peerVars, worldVars, Stop, StopHost, Stopped, StopSignal,
        StopFails, Discover, CleanUpRuns, RunStopped, StopRun,
        StopGroup, GroupQuiet, GroupUnproved
  <2>2. QED BY <2>1, <1>0
<1>16. CASE Judge \/ GiveUp
  <2>1. UNCHANGED <<peer, socket, frames, clientId, failure, timedOut, aborted, seen, cancelled,
                    chain, link, wire, answer, posts>>
    BY <1>16, Zenon DEF Judge, Verdict, Move, driverUnchanged, groupVars,
        peerVars, worldVars, GiveUp
  <2>2. QED BY <2>1, <1>0
<1>17. ASSUME NEW r \in Reports, Generate(r) \/ Validate(r)
      PROVE  PeerTypeOK'
  <2>1. UNCHANGED <<peer, socket, frames, clientId, failure, timedOut, aborted, seen, cancelled,
                    chain, link, wire, answer, posts>>
    BY <1>17, Zenon DEF Generate, AgentStep, agentUnchanged, driverVars,
        groupVars, peerVars, Validate
  <2>2. QED BY <2>1, <1>0
<1>18. ASSUME NEW e \in Events, Resolve(e) \/ Denied(e)
      PROVE  PeerTypeOK'
  <2>1. UNCHANGED <<peer, socket, frames, clientId, failure, timedOut, aborted, seen, cancelled,
                    chain, link, wire, answer, posts>>
    BY <1>18, Zenon DEF Resolve, agentUnchanged, driverVars, groupVars,
        peerVars, Denied
  <2>2. QED BY <2>1, <1>0
<1>19. ASSUME NEW e \in Events, NEW r \in Reports,
              Submit(e, r)
                \/ Accept(e, r, "approved") \/ Accept(e, r, "unasked")
      PROVE  PeerTypeOK'
  <2>1. UNCHANGED <<peer, socket, frames, clientId, failure, timedOut, aborted, seen, cancelled,
                    chain, link, wire, answer, posts>>
    BY <1>19, Zenon DEF Submit, AgentStep, agentUnchanged, driverVars,
        groupVars, peerVars, Accept
  <2>2. QED BY <2>1, <1>0
<1>20. CASE HostServes \/ HostObeys \/ HostCrashes \/ HostExits \/ RunStep
  BY <1>20, HostFrame, <1>0 DEF HostLeaves
<1>21. QED BY <1>1, <1>2, <1>3, <1>4, <1>5, <1>6, <1>7, <1>8, <1>9, <1>10, <1>11, <1>12, <1>13,
    <1>14, <1>15, <1>16, <1>17, <1>18, <1>19, <1>20 DEF Next, World, Driver,
    AgentsAct

(* A step of the connection, by what it does to the invocations.           *)
Stands ==
  /\ UNCHANGED <<seen, chain, link, wire, posts>> /\ (failure => failure')
  /\ peer' = "returned" => peer = "returned" \/ (peer = "joining" /\ chain = << >> /\ ~failure)
  /\ peer' \in {"joining", "returned"} => peer \in {"joining", "returned"} \/ socket = "closed"
  /\ socket = "closed" => socket' = "closed" \/ peer' = "opening"
Arrives ==
  /\ socket # "closed" /\ UNCHANGED <<peer, socket, failure, link, wire, posts>>
  /\ \E e \in Events \ seen : seen' = seen \cup {e} /\ chain' = Append(chain, e)
Taken ==
  /\ UNCHANGED <<peer, socket, failure, seen, chain, posts>>
  /\ \E w \in wire : /\ wire' = wire \ {w}
                     /\ link' = IF link = "posting" /\ Head(chain) = w[1] THEN "posted" ELSE link
Drops ==
  /\ chain # << >> /\ chain' = Tail(chain) /\ link' = "idle"
  /\ UNCHANGED <<peer, socket, seen, wire, posts>>
  /\ failure' \/ (failure' = failure /\ link # "posting")
Considers ==
  /\ link = "idle" /\ chain # << >> /\ link' = "deciding"
  /\ UNCHANGED <<peer, socket, failure, seen, chain, wire, posts>>
Posts ==
  /\ link = "deciding" /\ chain # << >> /\ link' = "posting"
  /\ Head(chain) \notin cancelled /\ ~Closing /\ ~failure
  /\ \E v \in Value : /\ wire' = wire \cup {<<Head(chain), v>>}
                           /\ posts' = Append(posts, <<Head(chain), v>>)
  /\ UNCHANGED <<peer, socket, failure, seen, chain>>
PeerStep == Stands \/ Arrives \/ Taken \/ Drops \/ Considers \/ Posts

(* Every step is one of the six, seen from the connection.                  *)
LEMMA PeerActs == PeerTypeOK /\ Linked /\ Next => PeerStep
<1> SUFFICES ASSUME PeerTypeOK, Linked, Next PROVE PeerStep
  OBVIOUS
<1>0. UNCHANGED <<peer, socket, failure, seen, chain, link, wire, posts>> => PeerStep
  BY DEF PeerStep, Stands
<1>1. ASSUME NEW e \in Events, Ask(e) PROVE PeerStep
  BY <1>1 DEF PeerStep, Stands, Ask
<1>2. ASSUME NEW e \in Events, Cancel(e) PROVE PeerStep
  BY <1>2 DEF PeerStep, Stands, Cancel
<1>3. CASE PeerMoves
  <2>1. CASE Connect
    BY <2>1 DEF Connect, PeerStep, Stands
  <2>2. CASE SocketCloses
    BY <2>2 DEF SocketCloses, PeerStep, Stands
  <2>3. CASE TakeAnswer
    BY <2>3 DEF TakeAnswer, PeerStep, Taken
  <2>4. CASE Receive
    <3>1. frames # << >> /\ socket # "closed" /\ UNCHANGED <<peer, socket, link, wire, posts>>
      BY <2>4 DEF Receive
    <3>2. Head(frames) \in Frame
      BY <3>1, Dropped DEF PeerTypeOK
    <3>3. CASE Head(frames)[1] = "ready"
      <4>1. failure' = (failure \/ clientId) /\ UNCHANGED <<seen, chain>>
        BY <2>4, <3>3 DEF Receive
      <4>2. failure => failure'
        BY <4>1, Zenon
      <4>3. QED BY <3>1, <4>1, <4>2 DEF PeerStep, Stands
    <3>4. CASE Head(frames)[1] # "ready"
      <4>1. Head(frames)[2] \in Events /\ Head(frames)[1] \in {"waterfall", "cancel"}
        BY <3>2, <3>4 DEF Frame
      <4>2. CASE Head(frames)[1] = "cancel"
        <5>1. UNCHANGED <<failure, seen, chain>>
          BY <2>4, <4>2 DEF Receive
        <5>2. QED BY <3>1, <5>1 DEF PeerStep, Stands
      <4>3. CASE Head(frames)[1] = "waterfall"
        <5>1. \/ /\ Head(frames)[2] \notin seen /\ seen' = seen \cup {Head(frames)[2]}
                 /\ chain' = Append(chain, Head(frames)[2]) /\ failure' = failure
              \/ failure' = TRUE /\ UNCHANGED <<seen, chain>>
          BY <2>4, <4>3 DEF Receive
        <5>2. CASE failure' = TRUE /\ UNCHANGED <<seen, chain>>
          BY <3>1, <5>2 DEF PeerStep, Stands
        <5>3. CASE /\ Head(frames)[2] \notin seen /\ seen' = seen \cup {Head(frames)[2]}
                   /\ chain' = Append(chain, Head(frames)[2]) /\ failure' = failure
          BY <3>1, <4>1, <5>3 DEF PeerStep, Arrives
        <5>4. QED BY <5>1, <5>2, <5>3
      <4>4. QED BY <4>1, <4>2, <4>3
    <3>5. QED BY <3>3, <3>4
  <2>5. QED BY <1>3, <2>1, <2>2, <2>3, <2>4 DEF PeerMoves
<1>4. CASE CreateSession
  BY <1>4 DEF PeerStep, Stands, CreateSession, OpenPeer
<1>5. CASE ApprovalsOpen
  BY <1>5 DEF PeerStep, Stands, ApprovalsOpen, Opened
<1>6. CASE ApprovalsFail
  BY <1>6 DEF PeerStep, Stands, ApprovalsFail, BeginClose
<1>7. CASE Close
  BY <1>7 DEF PeerStep, Stands, Close, BeginClose, peerVars
<1>8. CASE ClosePeer
  <2>1. CASE DrainTimesOut
    BY <2>1 DEF DrainTimesOut, PeerStep, Stands
  <2>2. CASE Drained
    BY <2>2 DEF Drained, PeerStep, Stands
  <2>3. CASE Shut
    BY <2>3 DEF Shut, PeerStep, Stands
  <2>4. CASE Joined
    BY <2>4 DEF Joined, PeerStep, Stands
  <2>5. QED BY <1>8, <2>1, <2>2, <2>3, <2>4 DEF ClosePeer, PeerClose
<1>9. CASE PeerWorks
  <2>1. CASE StartLink
    <3>0. chain # << >> /\ link = "idle" /\ UNCHANGED <<peer, socket, failure, seen, wire, posts>>
      BY <2>1 DEF StartLink
    <3>1. CASE Withdrawn
      BY <2>1, <3>0, <3>1 DEF StartLink, Drop, PeerStep, Drops
    <3>2. CASE ~Withdrawn
      BY <2>1, <3>0, <3>2 DEF StartLink, PeerStep, Considers
    <3>3. QED BY <3>1, <3>2
  <2>2. CASE Answered
    BY <2>2 DEF Answered, Drop, Linked, PeerStep, Drops
  <2>3. CASE link = "deciding" /\ DecideReport
    <3>0. chain # << >> /\ UNCHANGED <<peer, socket, failure, seen, cancelled>>
      BY <2>3 DEF DecideReport, Decide, Linked
    <3>1. CASE Withdrawn
      BY <2>3, <3>0, <3>1 DEF DecideReport, Decide, Drop, PeerStep, Drops
    <3>2. CASE ~Withdrawn
      <4>1. Head(chain) \notin cancelled /\ ~Closing /\ ~failure
        BY <3>2 DEF Withdrawn
      <4>2. /\ link' = "posting" /\ chain' = chain
            /\ \E v \in Value : /\ wire' = wire \cup {<<Head(chain), v>>}
                                     /\ posts' = Append(posts, <<Head(chain), v>>)
        BY <2>3, <3>2 DEF DecideReport, Decide, Value
      <4>3. QED BY <2>3, <3>0, <4>1, <4>2 DEF PeerStep, Posts
    <3>3. QED BY <3>1, <3>2
  <2>4. QED BY <1>9, <2>1, <2>2, <2>3 DEF PeerWorks
<1>10. CASE PeerBreaks
  BY <1>10 DEF PeerBreaks, LinkFails, Drop, Linked, PeerStep, Drops
<1>11. CASE CreateTask \/ Delegate \/ Catalog \/ Admit \/ Launch
  <2>1. UNCHANGED <<peer, socket, failure, seen, chain, link, wire, posts>>
    BY <1>11, Zenon DEF CreateTask, AgentStep, agentUnchanged, driverVars,
        groupVars, peerVars, Delegate, Catalog, Admit, Launch,
        Spawn, worldVars
  <2>2. QED BY <2>1, <1>0
<1>12. CASE RunAnswers \/ RunAgain \/ Wait \/ Collect \/ EndTurn
  <2>1. UNCHANGED <<peer, socket, failure, seen, chain, link, wire, posts>>
    BY <1>12, Zenon DEF RunAnswers, agentUnchanged, driverVars, groupVars,
        peerVars, RunAgain, AgentStep, Wait, Collect, EndTurn
  <2>2. QED BY <2>1, <1>0
<1>13. CASE Settled \/ Prepare \/ StartHost \/ Ready \/ ApprovalsThrow
  <2>1. UNCHANGED <<peer, socket, failure, seen, chain, link, wire, posts>>
    BY <1>13, Zenon DEF Settled, agentUnchanged, driverVars, groupVars,
        peerVars, Prepare, Move, driverUnchanged, worldVars,
        StartHost, SpawnHost, Ready, ApprovalsThrow
  <2>2. QED BY <2>1, <1>0
<1>14. CASE Prompt \/ Round \/ FinalRoot \/ FinalWorker \/ Verify
  <2>1. UNCHANGED <<peer, socket, failure, seen, chain, link, wire, posts>>
    BY <1>14, Zenon DEF Prompt, Move, driverUnchanged, groupVars,
        peerVars, worldVars, Round, FinalRoot, FinalWorker, Verify
  <2>2. QED BY <2>1, <1>0
<1>15. CASE Closed \/ Stop \/ Discover \/ CleanUpRuns \/ RunStopped
  <2>1. UNCHANGED <<peer, socket, failure, seen, chain, link, wire, posts>>
    BY <1>15, Zenon DEF Closed, Move, driverUnchanged, groupVars,
        peerVars, worldVars, Stop, StopHost, Stopped, StopSignal,
        StopFails, Discover, CleanUpRuns, RunStopped, StopRun,
        StopGroup, GroupQuiet, GroupUnproved
  <2>2. QED BY <2>1, <1>0
<1>16. CASE Judge \/ GiveUp
  <2>1. UNCHANGED <<peer, socket, failure, seen, chain, link, wire, posts>>
    BY <1>16, Zenon DEF Judge, Verdict, Move, driverUnchanged, groupVars,
        peerVars, worldVars, GiveUp
  <2>2. QED BY <2>1, <1>0
<1>17. ASSUME NEW r \in Reports, Generate(r) \/ Validate(r)
      PROVE  PeerStep
  <2>1. UNCHANGED <<peer, socket, failure, seen, chain, link, wire, posts>>
    BY <1>17, Zenon DEF Generate, AgentStep, agentUnchanged, driverVars,
        groupVars, peerVars, Validate
  <2>2. QED BY <2>1, <1>0
<1>18. ASSUME NEW e \in Events, Resolve(e) \/ Denied(e)
      PROVE  PeerStep
  <2>1. UNCHANGED <<peer, socket, failure, seen, chain, link, wire, posts>>
    BY <1>18, Zenon DEF Resolve, agentUnchanged, driverVars, groupVars,
        peerVars, Denied
  <2>2. QED BY <2>1, <1>0
<1>19. ASSUME NEW e \in Events, NEW r \in Reports,
              Submit(e, r)
                \/ Accept(e, r, "approved") \/ Accept(e, r, "unasked")
      PROVE  PeerStep
  <2>1. UNCHANGED <<peer, socket, failure, seen, chain, link, wire, posts>>
    BY <1>19, Zenon DEF Submit, AgentStep, agentUnchanged, driverVars,
        groupVars, peerVars, Accept
  <2>2. QED BY <2>1, <1>0
<1>20. CASE HostServes \/ HostObeys \/ HostCrashes \/ HostExits \/ RunStep
  BY <1>20, HostFrame, <1>0 DEF HostLeaves
<1>21. QED BY <1>1, <1>2, <1>3, <1>4, <1>5, <1>6, <1>7, <1>8, <1>9, <1>10, <1>11, <1>12, <1>13,
    <1>14, <1>15, <1>16, <1>17, <1>18, <1>19, <1>20 DEF Next, World, Driver,
    AgentsAct

(* Each invocation once, and answers only to the one at the head.          *)
ChainInv ==
  /\ \A i \in DOMAIN chain : chain[i] \in seen
  /\ \A i \in DOMAIN posts : posts[i][1] \in seen
  /\ \A i, j \in DOMAIN chain : chain[i] = chain[j] => i = j
  /\ \A i \in DOMAIN posts, j \in DOMAIN chain :
       posts[i][1] = chain[j] => j = 1 /\ link \in {"posting", "posted"}
(* While nothing has failed the answers under way are the one of the head.  *)
WireInv ==
  ~failure => IF link = "posting" THEN \E v \in Value : wire = {<<Head(chain), v>>}
                                  ELSE wire = {}
ShutInv ==
  /\ peer \in {"joining", "returned"} => socket = "closed"
  /\ CloseIsFinal
PeerInv == PeerTypeOK /\ Linked /\ ChainInv /\ WireInv /\ ShutInv

(* Invocations stay distinct, and answers are for the first of them.        *)
LEMMA ChainStep ==
  ASSUME PeerInv, PeerStep
  PROVE  Linked' /\ ChainInv'
<1>0. chain \in Seq(Events) /\ posts \in Seq(Events \X Value) /\ seen \subseteq Events
  BY DEF PeerInv, PeerTypeOK
<1>1. CASE Stands
  BY <1>1 DEF Stands, PeerInv, Linked, ChainInv
<1>2. CASE Arrives
  <2>1. PICK e \in Events \ seen : seen' = seen \cup {e} /\ chain' = Append(chain, e)
    BY <1>2 DEF Arrives
  <2> DEFINE t == Append(chain, e)
             n == Len(chain) + 1
  <2>2. /\ Len(chain) \in Nat /\ DOMAIN chain = 1..Len(chain) /\ DOMAIN t = 1..Len(chain) + 1
        /\ \A i \in 1..Len(chain) : t[i] = chain[i]
        /\ t[Len(chain) + 1] = e /\ Len(t) = Len(chain) + 1
    BY <1>0, LogGrows
  <2>3. /\ n \notin DOMAIN chain /\ n \in DOMAIN t /\ t[n] = e /\ t # << >>
        /\ \A i \in DOMAIN t : i = n \/ (i \in DOMAIN chain /\ t[i] = chain[i])
    BY <2>2
  <2>4. chain' = t /\ link' = link /\ posts' = posts
    BY <1>2, <2>1 DEF Arrives
  <2> HIDE DEF t, n
  <2>5. Linked'
    BY <2>3, <2>4 DEF Linked
  <2>6. ChainInv'
    BY <2>1, <2>3, <2>4 DEF PeerInv, ChainInv
  <2>7. QED BY <2>5, <2>6
<1>3. CASE Taken
  BY <1>3 DEF Taken, PeerInv, Linked, ChainInv
<1>4. CASE Drops
  <2> DEFINE t == Tail(chain)
  <2>1. 1 \in DOMAIN chain /\ \A i \in DOMAIN t : i + 1 \in DOMAIN chain /\ t[i] = chain[i + 1] /\ i + 1 # 1 /\ i \in Int
    BY <1>0, <1>4, Dropped DEF Drops
  <2>2. chain' = t /\ link' = "idle" /\ posts' = posts /\ seen' = seen
    BY <1>4 DEF Drops
  <2> HIDE DEF t
  <2>3. \A i, j \in DOMAIN t : t[i] = t[j] => i = j
    BY <2>1 DEF PeerInv, ChainInv
  <2>4. \A i \in DOMAIN posts, j \in DOMAIN t : posts[i][1] # t[j]
    BY <2>1 DEF PeerInv, ChainInv
  <2>5. \A i \in DOMAIN t : t[i] \in seen
    BY <2>1 DEF PeerInv, ChainInv
  <2>6. QED BY <2>2, <2>3, <2>4, <2>5 DEF PeerInv, Linked, ChainInv
<1>5. CASE Considers
  <2>1. chain' = chain /\ posts' = posts /\ seen' = seen /\ chain # << >> /\ link = "idle"
    BY <1>5 DEF Considers
  <2>2. QED BY <2>1 DEF PeerInv, Linked, ChainInv
<1>6. CASE Posts
  <2>1. PICK v \in Value : posts' = Append(posts, <<Head(chain), v>>)
    BY <1>6 DEF Posts
  <2>2. chain # << >> /\ link = "deciding" /\ link' = "posting" /\ chain' = chain /\ seen' = seen
    BY <1>6 DEF Posts
  <2>3. Head(chain) \in Events /\ Head(chain) = chain[1] /\ 1 \in DOMAIN chain
    BY <1>0, <2>2, Dropped
  <2> DEFINE p == <<Head(chain), v>>
             t == Append(posts, p)
             n == Len(posts) + 1
  <2>4. p \in Events \X Value /\ p[1] = chain[1]
    BY <2>3
  <2>5. /\ Len(posts) \in Nat /\ DOMAIN posts = 1..Len(posts) /\ DOMAIN t = 1..Len(posts) + 1
        /\ \A i \in 1..Len(posts) : t[i] = posts[i]
        /\ t[Len(posts) + 1] = p
    BY <1>0, <2>4, LogGrows
  <2>6. \A i \in DOMAIN t : (i = n /\ t[i] = p) \/ (i \in DOMAIN posts /\ t[i] = posts[i])
    BY <2>5
  <2>7. posts' = t
    BY <2>1
  <2> HIDE DEF p, t, n
  <2>8. \A i \in DOMAIN t : t[i][1] \in seen
    BY <2>3, <2>4, <2>6 DEF PeerInv, ChainInv
  <2>9. \A i \in DOMAIN t, j \in DOMAIN chain : t[i][1] = chain[j] => j = 1
    BY <2>3, <2>4, <2>6 DEF PeerInv, ChainInv
  <2>10. QED BY <2>2, <2>7, <2>8, <2>9 DEF PeerInv, Linked, ChainInv
<1>7. QED BY <1>1, <1>2, <1>3, <1>4, <1>5, <1>6 DEF PeerStep

(* While nothing has failed, the answer under way is that of the head.      *)
LEMMA WireStep ==
  ASSUME PeerInv, PeerStep
  PROVE  WireInv'
<1>0. chain \in Seq(Events) /\ link \in {"idle", "deciding", "posting", "posted"}
  BY DEF PeerInv, PeerTypeOK
<1>1. CASE Stands
  BY <1>1 DEF Stands, PeerInv, WireInv
<1>2. CASE Arrives
  <2>1. PICK e \in Events \ seen : chain' = Append(chain, e)
    BY <1>2 DEF Arrives
  <2>2. chain # << >> => Head(Append(chain, e)) = Head(chain)
    <3>1. SUFFICES ASSUME chain # << >> PROVE Head(Append(chain, e)) = Head(chain)
      OBVIOUS
    <3>2. Head(chain) = chain[1] /\ 1 \in DOMAIN chain /\ DOMAIN chain = 1..Len(chain)
      BY <1>0, <3>1, Dropped
    <3>3. Append(chain, e) \in Seq(Events) /\ Append(chain, e)[1] = chain[1] /\ Len(Append(chain, e)) # 0
      BY <1>0, <3>2, LogGrows
    <3>4. Append(chain, e) # << >>
      BY <3>3
    <3>5. QED BY <3>2, <3>3, <3>4, Dropped
  <2>3. link' = link /\ wire' = wire /\ failure' = failure /\ (link = "posting" => chain # << >>)
    BY <1>2 DEF Arrives, PeerInv, Linked
  <2>4. link = "posting" => Head(chain') = Head(chain)
    BY <2>1, <2>2, <2>3
  <2>5. QED BY <2>3, <2>4 DEF PeerInv, WireInv
<1>3. CASE Taken
  <2>1. PICK w \in wire : /\ wire' = wire \ {w}
                          /\ link' = IF link = "posting" /\ Head(chain) = w[1] THEN "posted" ELSE link
    BY <1>3 DEF Taken
  <2>2. failure' = failure
    BY <1>3 DEF Taken
  <2>3. ASSUME ~failure PROVE link = "posting" /\ wire = {w} /\ w[1] = Head(chain)
    BY <2>1, <2>3 DEF PeerInv, WireInv
  <2>4. ~failure => wire' = {} /\ link' = "posted"
    BY <2>1, <2>3
  <2>5. QED BY <2>2, <2>4 DEF WireInv
<1>4. CASE Drops
  <2>1. link' = "idle" /\ wire' = wire /\ (failure' \/ (failure' = failure /\ link # "posting"))
    BY <1>4 DEF Drops
  <2>2. QED BY <2>1 DEF PeerInv, WireInv
<1>5. CASE Considers
  BY <1>5 DEF Considers, PeerInv, WireInv
<1>6. CASE Posts
  <2>1. PICK v \in Value : wire' = wire \cup {<<Head(chain), v>>}
    BY <1>6 DEF Posts
  <2>2. link = "deciding" /\ ~failure /\ link' = "posting" /\ chain' = chain
    BY <1>6 DEF Posts
  <2>3. wire = {}
    BY <2>2 DEF PeerInv, WireInv
  <2>4. wire' = {<<Head(chain'), v>>}
    BY <2>1, <2>2, <2>3
  <2>5. QED BY <2>2, <2>4 DEF WireInv
<1>7. QED BY <1>1, <1>2, <1>3, <1>4, <1>5, <1>6 DEF PeerStep

(* A connection that has returned stays quiet.                              *)
LEMMA ShutStep ==
  ASSUME PeerInv, PeerStep
  PROVE  ShutInv'
<1>1. CASE Stands
  <2>1. /\ UNCHANGED <<chain, link, wire>>
        /\ peer' = "returned" => peer = "returned" \/ (peer = "joining" /\ chain = << >> /\ ~failure)
        /\ peer' \in {"joining", "returned"} => socket = "closed"
        /\ socket = "closed" => socket' = "closed" \/ peer' = "opening"
    BY <1>1 DEF Stands, PeerInv, ShutInv
  <2>2. peer' \in {"joining", "returned"} => socket' = "closed"
    BY <2>1
  <2>3. peer' = "returned" => chain' = << >> /\ link' = "idle" /\ wire' = {}
    BY <2>1 DEF PeerInv, ShutInv, Linked, WireInv, CloseIsFinal
  <2>4. QED BY <2>2, <2>3 DEF ShutInv, CloseIsFinal
<1>2. CASE Arrives
  BY <1>2 DEF Arrives, PeerInv, ShutInv, CloseIsFinal
<1>3. CASE Taken
  BY <1>3 DEF Taken, PeerInv, ShutInv, CloseIsFinal
<1>4. CASE Drops
  BY <1>4 DEF Drops, PeerInv, ShutInv, CloseIsFinal
<1>5. CASE Considers
  BY <1>5 DEF Considers, PeerInv, ShutInv, CloseIsFinal
<1>6. CASE Posts
  BY <1>6 DEF Posts, PeerInv, ShutInv, CloseIsFinal
<1>7. QED BY <1>1, <1>2, <1>3, <1>4, <1>5, <1>6 DEF PeerStep

(* The invariant of the connection.                                         *)
LEMMA PeerKept == PeerInv /\ Next => PeerInv'
BY PeerTypesStep, PeerActs, ChainStep, WireStep, ShutStep DEF PeerInv

(* What is logged has a place in the log.                                   *)
LEMMA LoggedAt ==
  ASSUME NEW s, NEW x
  PROVE  Logged(s, x) <=> \E i \in DOMAIN s : s[i] = x
BY DEF Logged, ToSet

(* The log of the coordinator grows by a word that fits what is there.      *)
LEMMA RootLogs ==
  ASSUME RootInv, ev' = ev, NEW w \in Word, root' = Append(root, w),
         child \in {"known", "two"} => child' \in {"known", "two"},
         w = <<"catalog">> => child' \in {"known", "two"},
         w[1] \in {"asked", "decided", "result"} =>
           \E j \in DOMAIN root : root[j][1] = "submit" /\ root[j][2] = w[2],
         w[1] = "submit" => \A j \in DOMAIN root : root[j][1] = "submit" => root[j][2] # w[2]
  PROVE  RootInv'
<1> DEFINE t == Append(root, w)
           n == Len(root) + 1
<1>1. /\ t \in Seq(Word) /\ n \in DOMAIN t /\ t[n] = w
      /\ \A i \in DOMAIN root : i \in DOMAIN t /\ t[i] = root[i]
      /\ \A i \in DOMAIN t : i \in DOMAIN root \/ i = n
  BY WordAppended DEF RootInv
<1>2. root' = t
  OBVIOUS
<1> HIDE DEF t, n
<1>3. Begins(ev.root, t) /\ DOMAIN ev = {"root", "worker"}
  BY <1>1 DEF RootInv, Begins
<1>4. \A i \in DOMAIN t : t[i] = <<"catalog">> => child' \in {"known", "two"}
  BY <1>1 DEF RootInv
<1>5. About(t)
  <2>1. \A i \in DOMAIN t : t[i][1] \in {"asked", "decided", "result"} =>
          \E j \in DOMAIN t : t[j][1] = "submit" /\ t[j][2] = t[i][2]
    BY <1>1 DEF RootInv, About
  <2>2. \A i, j \in DOMAIN t : t[i][1] = "submit" /\ t[j][1] = "submit" /\ t[i][2] = t[j][2] => i = j
    BY <1>1 DEF RootInv, About
  <2>3. QED BY <2>1, <2>2 DEF About
<1>6. QED BY <1>1, <1>2, <1>3, <1>4, <1>5 DEF RootInv

(* Every step keeps what is known of the log of the coordinator.            *)
LEMMA RootStep == PeerTypeOK /\ RootInv /\ Next => RootInv'
<1> SUFFICES ASSUME PeerTypeOK, RootInv, Next PROVE RootInv'
  OBVIOUS
<1>0. UNCHANGED <<root, child, ev>> => RootInv'
  BY DEF RootInv, Begins, About
<1>1. CASE CreateTask
  <2>1. root' = Append(root, <<"task">>) /\ ev' = ev /\ child' = child
    BY <1>1 DEF CreateTask, AgentStep, agentUnchanged, driverVars,
        groupVars, peerVars
  <2>2. <<"task">> \in Word
    BY Words
  <2>9. QED BY <2>1, <2>2, RootLogs
<1>2. CASE Delegate
  <2>1. root' = Append(root, <<"subagent">>) /\ ev' = ev /\ (child = "none" \/ (child = "known" /\ child' = "two"))
    BY <1>2 DEF Delegate, AgentStep, agentUnchanged, driverVars,
        groupVars, peerVars
  <2>2. <<"subagent">> \in Word
    BY Words
  <2>9. QED BY <2>1, <2>2, RootLogs
<1>3. CASE Catalog
  <2>1. root' = Append(root, <<"catalog">>) /\ ev' = ev /\ child' \in {"known", "two"}
    BY <1>3 DEF Catalog, agentUnchanged, driverVars, groupVars, peerVars
  <2>2. <<"catalog">> \in Word
    BY Words
  <2>9. QED BY <2>1, <2>2, RootLogs
<1>4. CASE Settled
  <2>1. root' = Append(root, <<"settled">>) /\ ev' = ev /\ child' = child
    BY <1>4 DEF Settled, agentUnchanged, driverVars, groupVars, peerVars
  <2>2. <<"settled">> \in Word
    BY Words
  <2>9. QED BY <2>1, <2>2, RootLogs
<1>5. ASSUME NEW r \in Reports, Generate(r) PROVE RootInv'
  <2>1. root' = Append(root, <<"generate", r>>) /\ ev' = ev /\ child' = child
    BY <1>5 DEF Generate, AgentStep, agentUnchanged, driverVars,
        groupVars, peerVars
  <2>2. <<"generate", r>> \in Word
    BY Words
  <2>9. QED BY <2>1, <2>2, RootLogs
<1>6. ASSUME NEW r \in Reports, Validate(r) PROVE RootInv'
  <2>1. ev' = ev /\ child' = child /\ \E ok \in BOOLEAN : root' = Append(root, <<"validate", r, ok>>)
    BY <1>6 DEF Validate, AgentStep, agentUnchanged, driverVars,
        groupVars, peerVars
  <2>2. PICK ok \in BOOLEAN : root' = Append(root, <<"validate", r, ok>>)
    BY <2>1
  <2>3. <<"validate", r, ok>> \in Word
    BY Words
  <2>9. QED BY <2>1, <2>2, <2>3, RootLogs
<1>7. ASSUME NEW e \in Events, NEW r \in Reports, Submit(e, r) PROVE RootInv'
  <2>1. root' = Append(root, <<"submit", e, r>>) /\ ev' = ev /\ child' = child
    BY <1>7 DEF Submit, AgentStep, agentUnchanged, driverVars, groupVars,
        peerVars
  <2>2. <<"submit", e, r>> \in Word
    BY Words
  <2>3. \A j \in DOMAIN root : root[j][1] = "submit" => root[j][2] # e
    BY <1>7 DEF Submit, Kinds
  <2>9. QED BY <2>1, <2>2, RootLogs, <2>3
<1>8. ASSUME NEW e \in Events, Ask(e) PROVE RootInv'
  <2>1. root' = Append(root, <<"asked", e>>) /\ ev' = ev /\ child' = child
    BY <1>8 DEF Ask, agentUnchanged, driverVars, groupVars
  <2>2. <<"asked", e>> \in Word
    BY Words
  <2>3. \E j \in DOMAIN root : root[j][1] = "submit" /\ root[j][2] = e
    <3>1. PICK r \in Reports : Logged(root, <<"submit", e, r>>)
      BY <1>8 DEF Ask
    <3>2. QED BY <3>1, LoggedAt
  <2>9. QED BY <2>1, <2>2, RootLogs, <2>3
<1>9. ASSUME NEW e \in Events, Resolve(e) PROVE RootInv'
  <2>1. /\ root' = Append(root, <<"decided", e, answer[e]>>) /\ ev' = ev /\ child' = child
        /\ answer[e] # "none"
    BY <1>9 DEF Resolve, agentUnchanged, driverVars, groupVars, peerVars
  <2>2. <<"decided", e, answer[e]>> \in Word
    <3>1. answer[e] \in {"allowed-once", "next"}
      BY <2>1 DEF PeerTypeOK, Value
    <3>2. QED BY <3>1, Words
  <2>a. PICK i \in DOMAIN root : root[i] = <<"asked", e>>
    BY <1>9, LoggedAt DEF Resolve
  <2>3. \E j \in DOMAIN root : root[j][1] = "submit" /\ root[j][2] = e
    BY <2>a DEF RootInv, About
  <2>9. QED BY <2>1, <2>2, <2>3, RootLogs
<1>10. ASSUME NEW e \in Events, NEW r \in Reports,
             Accept(e, r, "approved") \/ Accept(e, r, "unasked")
      PROVE  RootInv'
  <2>1. /\ root' = Append(root, <<"result", e, report[r].status = "reviewed">>) /\ ev' = ev /\ child' = child
        /\ Logged(root, <<"submit", e, r>>)
    BY <1>10 DEF Accept, agentUnchanged, driverVars, groupVars, peerVars
  <2>2. <<"result", e, report[r].status = "reviewed">> \in Word
    BY Words
  <2>3. \E j \in DOMAIN root : root[j][1] = "submit" /\ root[j][2] = e
    BY <2>1, LoggedAt
  <2>9. QED BY <2>1, <2>2, <2>3, RootLogs
<1>11. ASSUME NEW e \in Events, Denied(e) PROVE RootInv'
  <2>1. root' = Append(root, <<"result", e, FALSE>>) /\ ev' = ev /\ child' = child
    BY <1>11 DEF Denied, agentUnchanged, driverVars, groupVars, peerVars
  <2>2. <<"result", e, FALSE>> \in Word
    BY Words
  <2>a. PICK i \in DOMAIN root : root[i] = <<"decided", e, "next">>
    BY <1>11, LoggedAt DEF Denied
  <2>3. \E j \in DOMAIN root : root[j][1] = "submit" /\ root[j][2] = e
    BY <2>a DEF RootInv, About
  <2>9. QED BY <2>1, <2>2, RootLogs, <2>3
<1>12. CASE FinalRoot
  <2>1. ev' = [ev EXCEPT !.root = root] /\ root' = root /\ child' = child
    BY <1>12 DEF FinalRoot, Move, driverUnchanged, groupVars, peerVars,
        worldVars
  <2>2. DOMAIN ev' = {"root", "worker"} /\ ev'.root = root
    BY <2>1 DEF RootInv
  <2>3. QED BY <2>1, <2>2 DEF RootInv, Begins, About
<1>13. CASE FinalWorker
  <2>1. ev' = [ev EXCEPT !.worker = worker] /\ root' = root /\ child' = child
    BY <1>13 DEF FinalWorker, Move, driverUnchanged, groupVars, peerVars,
        worldVars
  <2>2. DOMAIN ev' = {"root", "worker"} /\ ev'.root = ev.root
    BY <2>1 DEF RootInv
  <2>3. QED BY <2>1, <2>2 DEF RootInv, Begins, About
<1>14. CASE Verify
  <2>1. ev' = Unread /\ root' = root /\ child' = child
    BY <1>14 DEF Verify, Move, driverUnchanged, groupVars, peerVars,
        worldVars
  <2>2. DOMAIN ev' = {"root", "worker"} /\ ev'.root = << >>
    BY <2>1 DEF Unread
  <2>3. QED BY <2>1, <2>2 DEF RootInv, Begins, About
<1>15. CASE GiveUp
  <2>1. ev' = Unread /\ root' = root /\ child' = child
    BY <1>15 DEF GiveUp, driverUnchanged, groupVars, peerVars, worldVars
  <2>2. DOMAIN ev' = {"root", "worker"} /\ ev'.root = << >>
    BY <2>1 DEF Unread
  <2>3. QED BY <2>1, <2>2 DEF RootInv, Begins, About
<1>16. CASE Admit \/ Launch \/ RunAnswers \/ RunAgain \/ Wait
  <2>1. UNCHANGED <<root, child, ev>>
    BY <1>16, Zenon DEF Admit, AgentStep, agentUnchanged, driverVars,
        groupVars, peerVars, Launch, Spawn, worldVars, RunAnswers,
        RunAgain, Wait
  <2>2. QED BY <2>1, <1>0
<1>17. CASE Collect \/ EndTurn \/ Prepare \/ StartHost \/ Ready
  <2>1. UNCHANGED <<root, child, ev>>
    BY <1>17, Zenon DEF Collect, AgentStep, agentUnchanged, driverVars,
        groupVars, peerVars, EndTurn, Prepare, Move,
        driverUnchanged, worldVars, StartHost, SpawnHost, Ready
  <2>2. QED BY <2>1, <1>0
<1>18. CASE CreateSession \/ ApprovalsOpen \/ ApprovalsFail
            \/ ApprovalsThrow \/ Prompt
  <2>1. UNCHANGED <<root, child, ev>>
    BY <1>18, Zenon DEF CreateSession, Move, OpenPeer, driverUnchanged,
        groupVars, worldVars, ApprovalsOpen, Opened, ApprovalsFail,
        BeginClose, driverVars, ApprovalsThrow, peerVars, Prompt
  <2>2. QED BY <2>1, <1>0
<1>19. CASE Round \/ Close \/ ClosePeer \/ Closed \/ Stop
  <2>1. UNCHANGED <<root, child, ev>>
    BY <1>19, Zenon DEF Round, driverUnchanged, groupVars, peerVars,
        worldVars, Close, BeginClose, ClosePeer, PeerClose,
        DrainTimesOut, Drained, Shut, Joined, driverVars, Closed,
        Move, Stop, StopHost, Stopped, StopSignal, StopFails
  <2>2. QED BY <2>1, <1>0
<1>20. CASE Discover \/ CleanUpRuns \/ RunStopped \/ Judge
  <2>1. UNCHANGED <<root, child, ev>>
    BY <1>20, Zenon DEF Discover, Move, driverUnchanged, groupVars,
        peerVars, worldVars, CleanUpRuns, RunStopped, StopRun,
        StopGroup, GroupQuiet, GroupUnproved, Judge, Verdict
  <2>2. QED BY <2>1, <1>0
<1>21. ASSUME NEW e \in Events, Cancel(e)
      PROVE  RootInv'
  <2>1. UNCHANGED <<root, child, ev>>
    BY <1>21, Zenon DEF Cancel, AgentStep, agentUnchanged, driverVars,
        groupVars, worldVars
  <2>2. QED BY <2>1, <1>0
<1>22. CASE PeerMoves \/ PeerWorks \/ PeerBreaks
  BY <1>22, PeerFrame, <1>0 DEF PeerLeaves
<1>23. CASE HostServes \/ HostObeys \/ HostCrashes \/ HostExits \/ RunStep
  BY <1>23, HostFrame, <1>0 DEF HostLeaves
<1>24. QED BY <1>1, <1>2, <1>3, <1>4, <1>5, <1>6, <1>7, <1>8, <1>9, <1>10, <1>11, <1>12, <1>13,
    <1>14, <1>15, <1>16, <1>17, <1>18, <1>19, <1>20, <1>21, <1>22, <1>23 DEF Next,
    World, Driver, AgentsAct

(* Reports: one record changes at a time.                                  *)
ReportRecord == [status : {"none", "draft", "reviewed", "accepted"}, runs : SUBSET {"run"}, decided : BOOLEAN]
OneReport(r) ==
  /\ report' \in [Reports -> ReportRecord] /\ drawn' \in [Reports -> {"none", "early", "collected"}]
  /\ taken' \in [Reports -> {"none", "approved", "unasked"}]
  /\ \A q \in Reports \ {r} : /\ report'[q] = report[q] /\ drawn'[q] = drawn[q] /\ taken'[q] = taken[q]
  /\ taken'[r] # "none" => report'[r].status = "accepted"
  /\ report'[r].runs = {"run"} => drawn'[r] = "collected"
(* A step about one report keeps the invariant of all.                      *)
LEMMA ReportMoved ==
  ASSUME ReportsInv, NEW r \in Reports, OneReport(r)
  PROVE  ReportsInv'
<1>1. /\ report' \in [Reports -> ReportRecord] /\ drawn' \in [Reports -> {"none", "early", "collected"}]
      /\ taken' \in [Reports -> {"none", "approved", "unasked"}]
  BY DEF OneReport
<1>2. \A q \in Reports : taken'[q] # "none" => report'[q].status = "accepted"
  BY DEF OneReport, ReportsInv
<1>3. \A q \in Reports : report'[q].runs = {"run"} => drawn'[q] = "collected"
  BY DEF OneReport, ReportsInv
<1>4. QED BY <1>1, <1>2, <1>3 DEF ReportsInv, ReportRecord

(* One field of one report is set.                                          *)
LEMMA ReportSet ==
  ASSUME NEW f \in [Reports -> ReportRecord], NEW r \in Reports, NEW s \in {"draft", "reviewed", "accepted"}
  PROVE  /\ [f EXCEPT ![r].status = s] \in [Reports -> ReportRecord]
         /\ [f EXCEPT ![r].status = s][r].status = s /\ [f EXCEPT ![r].status = s][r].runs = f[r].runs
         /\ \A q \in Reports \ {r} : [f EXCEPT ![r].status = s][q] = f[q]
         /\ [f EXCEPT ![r].decided = TRUE] \in [Reports -> ReportRecord]
         /\ [f EXCEPT ![r].decided = TRUE][r].status = f[r].status
         /\ [f EXCEPT ![r].decided = TRUE][r].runs = f[r].runs
         /\ \A q \in Reports \ {r} : [f EXCEPT ![r].decided = TRUE][q] = f[q]
<1>1. /\ [f[r] EXCEPT !.status = s] \in ReportRecord /\ [f[r] EXCEPT !.status = s].status = s
      /\ [f[r] EXCEPT !.status = s].runs = f[r].runs
  BY DEF ReportRecord
<1>2. /\ [f[r] EXCEPT !.decided = TRUE] \in ReportRecord
      /\ [f[r] EXCEPT !.decided = TRUE].runs = f[r].runs
      /\ [f[r] EXCEPT !.decided = TRUE].status = f[r].status
  BY DEF ReportRecord
<1>3. QED BY <1>1, <1>2

(* Every step keeps what is known of the reports.                           *)
LEMMA ReportsStep == ReportsInv /\ Next => ReportsInv'
<1> SUFFICES ASSUME ReportsInv, Next PROVE ReportsInv'
  OBVIOUS
<1>0. UNCHANGED <<report, drawn, taken>> => ReportsInv'
  BY DEF ReportsInv
<1>1. ASSUME NEW r \in Reports, Generate(r) PROVE ReportsInv'
  <2>1. /\ report[r] = NoReport /\ taken' = taken
        /\ drawn' = [drawn EXCEPT ![r] = IF job = "collected" THEN "collected" ELSE "early"]
        /\ report' = [report EXCEPT ![r] = [status |-> "draft", decided |-> FALSE,
                                           runs |-> IF job = "collected" THEN {"run"} ELSE {}]]
    BY <1>1 DEF Generate
  <2>2. report \in [Reports -> ReportRecord] /\ taken[r] = "none"
    BY <2>1 DEF ReportsInv, ReportRecord, NoReport
  <2> DEFINE n == [status |-> "draft", decided |-> FALSE,
                   runs |-> IF job = "collected" THEN {"run"} ELSE {}]
  <2>3. n \in ReportRecord /\ n.status = "draft" /\ (n.runs = {"run"} => job = "collected")
    BY DEF ReportRecord
  <2>4. report' = [report EXCEPT ![r] = n]
    BY <2>1
  <2> HIDE DEF n
  <2>5. /\ report' \in [Reports -> ReportRecord] /\ report'[r] = n
        /\ \A q \in Reports \ {r} : report'[q] = report[q]
    BY <2>2, <2>3, <2>4
  <2>7. /\ drawn' \in [Reports -> {"none", "early", "collected"}]
        /\ \A q \in Reports \ {r} : drawn'[q] = drawn[q]
        /\ job = "collected" => drawn'[r] = "collected"
    BY <2>1 DEF ReportsInv
  <2>8. taken' \in [Reports -> {"none", "approved", "unasked"}] /\ taken'[r] = "none"
        /\ \A q \in Reports \ {r} : taken'[q] = taken[q]
    BY <2>1, <2>2 DEF ReportsInv
  <2>9. OneReport(r)
    BY <2>3, <2>5, <2>7, <2>8 DEF OneReport
  <2>6. QED BY <2>9, ReportMoved
<1>2. ASSUME NEW r \in Reports, Validate(r) PROVE ReportsInv'
  <2>1. /\ drawn' = drawn /\ taken' = taken /\ report[r].status = "draft"
        /\ report' \in {report, [report EXCEPT ![r].status = "reviewed"]}
    BY <1>2 DEF Validate
  <2>2. report \in [Reports -> ReportRecord] /\ taken[r] = "none"
    BY <2>1 DEF ReportsInv, ReportRecord
  <2>3. CASE report' = report
    BY <2>1, <2>3, <1>0
  <2> DEFINE n == [report EXCEPT ![r].status = "reviewed"]
  <2>4. CASE report' = n
    <3>1. /\ n \in [Reports -> ReportRecord] /\ n[r].runs = report[r].runs
          /\ \A q \in Reports \ {r} : n[q] = report[q]
      BY <2>2, ReportSet
    <3> HIDE DEF n
    <3>2. OneReport(r)
      BY <2>1, <2>2, <2>4, <3>1 DEF ReportsInv, OneReport
    <3>3. QED BY <3>2, ReportMoved
  <2>5. QED BY <2>1, <2>3, <2>4
<1>3. ASSUME NEW e \in Events, NEW r \in Reports,
             Accept(e, r, "approved") \/ Accept(e, r, "unasked")
      PROVE  ReportsInv'
  <2>1. /\ drawn' = drawn
        /\ \E how \in {"approved", "unasked"} :
             IF report[r].status = "reviewed"
             THEN /\ report' = [report EXCEPT ![r].status = "accepted", ![r].decided = TRUE]
                  /\ taken' = [taken EXCEPT ![r] = how]
             ELSE UNCHANGED <<report, taken>>
    BY <1>3 DEF Accept
  <2>2. CASE report[r].status # "reviewed"
    BY <2>1, <2>2, <1>0
  <2>3. CASE report[r].status = "reviewed"
    <3>1. PICK how \in {"approved", "unasked"} :
            /\ report' = [report EXCEPT ![r].status = "accepted", ![r].decided = TRUE]
            /\ taken' = [taken EXCEPT ![r] = how]
      BY <2>1, <2>3
    <3>2. report \in [Reports -> ReportRecord]
      BY DEF ReportsInv, ReportRecord
    <3> DEFINE m == [report EXCEPT ![r].status = "accepted"]
               n == [m EXCEPT ![r].decided = TRUE]
    <3>3. /\ m \in [Reports -> ReportRecord] /\ m[r].status = "accepted" /\ m[r].runs = report[r].runs
          /\ \A q \in Reports \ {r} : m[q] = report[q]
      BY <3>2, ReportSet
    <3>4. report' = n
      BY <3>1, <3>2
    <3> HIDE DEF m
    <3>5. /\ n \in [Reports -> ReportRecord] /\ n[r].status = m[r].status /\ n[r].runs = m[r].runs
          /\ \A q \in Reports \ {r} : n[q] = m[q]
      BY <3>3, ReportSet
    <3> HIDE DEF n
    <3>a. /\ report' \in [Reports -> ReportRecord] /\ report'[r].status = "accepted"
          /\ report'[r].runs = report[r].runs
          /\ \A q \in Reports \ {r} : report'[q] = report[q]
      BY <3>3, <3>4, <3>5
    <3>b. taken' \in [Reports -> {"none", "approved", "unasked"}]
          /\ \A q \in Reports \ {r} : taken'[q] = taken[q]
      BY <3>1 DEF ReportsInv
    <3>6. OneReport(r)
      BY <2>1, <3>a, <3>b DEF ReportsInv, OneReport
    <3>7. QED BY <3>6, ReportMoved
  <2>4. QED BY <2>2, <2>3
<1>4. CASE CreateTask \/ Delegate \/ Catalog \/ Admit \/ Launch
  <2>1. UNCHANGED <<report, drawn, taken>>
    BY <1>4, Zenon DEF CreateTask, AgentStep, agentUnchanged, driverVars,
        groupVars, peerVars, Delegate, Catalog, Admit, Launch,
        Spawn, worldVars
  <2>2. QED BY <2>1, <1>0
<1>5. CASE RunAnswers \/ RunAgain \/ Wait \/ Collect \/ EndTurn
  <2>1. UNCHANGED <<report, drawn, taken>>
    BY <1>5, Zenon DEF RunAnswers, agentUnchanged, driverVars, groupVars,
        peerVars, RunAgain, AgentStep, Wait, Collect, EndTurn
  <2>2. QED BY <2>1, <1>0
<1>6. CASE Settled
  <2>1. UNCHANGED <<report, drawn, taken>>
    BY <1>6, Zenon DEF Settled, agentUnchanged, driverVars, groupVars,
        peerVars
  <2>2. QED BY <2>1, <1>0
<1>7. ASSUME NEW e \in Events, Ask(e) \/ Resolve(e) \/ Cancel(e)
                               \/ Denied(e)
      PROVE  ReportsInv'
  <2>1. UNCHANGED <<report, drawn, taken>>
    BY <1>7, Zenon DEF Ask, agentUnchanged, driverVars, groupVars,
        Resolve, peerVars, Cancel, AgentStep, worldVars, Denied
  <2>2. QED BY <2>1, <1>0
<1>8. ASSUME NEW e \in Events, NEW r \in Reports, Submit(e, r)
      PROVE  ReportsInv'
  <2>1. UNCHANGED <<report, drawn, taken>>
    BY <1>8, Zenon DEF Submit, AgentStep, agentUnchanged, driverVars,
        groupVars, peerVars
  <2>2. QED BY <2>1, <1>0
<1>9. CASE Driver \/ GiveUp
  BY <1>9, DriverFrame, <1>0 DEF DriverLeaves
<1>10. CASE PeerMoves \/ PeerWorks \/ PeerBreaks
  BY <1>10, PeerFrame, <1>0 DEF PeerLeaves
<1>11. CASE HostServes \/ HostObeys \/ HostCrashes \/ HostExits \/ RunStep
  BY <1>11, HostFrame, <1>0 DEF HostLeaves
<1>12. QED BY <1>1, <1>2, <1>3, <1>4, <1>5, <1>6, <1>7, <1>8, <1>9, <1>10, <1>11 DEF Next,
    World, AgentsAct

(* A word keeps what approvals mean if it is no late question and no result unasked. *)
LEMMA ApprovedLogs ==
  ASSUME RootInv, ApprovedInv, NEW w \in Word, root' = Append(root, w),
         \A r \in Reports : taken[r] = "approved" => taken'[r] = "approved",
         w[1] = "submit" => \A j \in DOMAIN root : root[j][1] = "submit" => root[j][2] # w[2],
         \A e \in Events, r \in Reports, i, j \in DOMAIN root :
           w = <<"result", e, TRUE>> /\ root[i] = <<"submit", e, r>>
             /\ root[j] = <<"decided", e, "allowed-once">> => taken'[r] = "approved"
  PROVE  ApprovedInv'
<1> DEFINE t == Append(root, w)
           n == Len(root) + 1
<1>1. /\ n \in DOMAIN t /\ t[n] = w /\ Len(root) \in Nat
      /\ \A i \in DOMAIN root : i \in DOMAIN t /\ t[i] = root[i] /\ i < n
      /\ \A i \in DOMAIN t : i \in Nat /\ (i \in DOMAIN root \/ i = n)
  BY WordAppended DEF RootInv
<1>2. root' = t
  OBVIOUS
<1>3. n \in Nat
  BY <1>1
<1> HIDE DEF t, n
<1> SUFFICES ASSUME NEW e \in Events, NEW r \in Reports, AcceptedUpon(t, e, r) PROVE taken'[r] = "approved"
  BY <1>2 DEF ApprovedInv
<1>a. PICK i \in DOMAIN t, j \in DOMAIN t, k \in DOMAIN t :
        /\ t[i] = <<"submit", e, r>> /\ t[j] = <<"decided", e, "allowed-once">> /\ j < k
        /\ t[k] = <<"result", e, TRUE>>
  BY DEF AcceptedUpon
<1>4. j \in DOMAIN root
  <2>1. SUFFICES ASSUME j = n PROVE FALSE
    BY <1>1
  <2>2. k < n \/ k = n
    BY <1>1
  <2>3. QED BY <2>1, <2>2, <1>a, <1>1, <1>3
<1>5. root[j] = <<"decided", e, "allowed-once">>
  BY <1>a, <1>1, <1>4
<1>6. i \in DOMAIN root
  <2>1. SUFFICES ASSUME i = n PROVE FALSE
    BY <1>1
  <2>2. w = <<"submit", e, r>>
    BY <1>a, <1>1, <2>1
  <2>3. PICK l \in DOMAIN root : root[l][1] = "submit" /\ root[l][2] = e
    BY <1>4, <1>5 DEF RootInv, About
  <2>4. QED BY <2>2, <2>3
<1>7. root[i] = <<"submit", e, r>>
  BY <1>a, <1>1, <1>6
<1>8. CASE k = n
  <2>1. w = <<"result", e, TRUE>>
    BY <1>a, <1>1, <1>8
  <2>2. QED BY <2>1, <1>4, <1>5, <1>6, <1>7
<1>9. CASE k \in DOMAIN root
  <2>1. root[k] = <<"result", e, TRUE>>
    BY <1>a, <1>1, <1>9
  <2>2. taken[r] = "approved"
    BY <1>a, <2>1, <1>9, <1>4, <1>5, <1>6, <1>7 DEF ApprovedInv, AcceptedUpon
  <2>3. QED BY <2>2
<1>10. QED BY <1>1, <1>8, <1>9

(* Every step keeps what approvals mean.                                    *)
LEMMA ApprovedStep ==
  PeerTypeOK /\ RootInv /\ ReportsInv /\ ApprovedInv /\ Next => ApprovedInv'
<1> SUFFICES ASSUME PeerTypeOK, RootInv, ReportsInv, ApprovedInv, Next PROVE ApprovedInv'
  OBVIOUS
<1>0. UNCHANGED <<root, taken>> => ApprovedInv'
  BY DEF ApprovedInv
<1>1. CASE CreateTask
  <2>1. root' = Append(root, <<"task">>) /\ taken' = taken
    BY <1>1 DEF CreateTask, AgentStep, agentUnchanged, driverVars,
        groupVars, peerVars
  <2>2. <<"task">> \in Word
    BY Words
  <2>9. QED BY <2>1, <2>2, ApprovedLogs
<1>2. CASE Delegate
  <2>1. root' = Append(root, <<"subagent">>) /\ taken' = taken
    BY <1>2 DEF Delegate, AgentStep, agentUnchanged, driverVars,
        groupVars, peerVars
  <2>2. <<"subagent">> \in Word
    BY Words
  <2>9. QED BY <2>1, <2>2, ApprovedLogs
<1>3. CASE Catalog
  <2>1. root' = Append(root, <<"catalog">>) /\ taken' = taken
    BY <1>3 DEF Catalog, agentUnchanged, driverVars, groupVars, peerVars
  <2>2. <<"catalog">> \in Word
    BY Words
  <2>9. QED BY <2>1, <2>2, ApprovedLogs
<1>4. CASE Settled
  <2>1. root' = Append(root, <<"settled">>) /\ taken' = taken
    BY <1>4 DEF Settled, agentUnchanged, driverVars, groupVars, peerVars
  <2>2. <<"settled">> \in Word
    BY Words
  <2>9. QED BY <2>1, <2>2, ApprovedLogs
<1>5. ASSUME NEW r \in Reports, Generate(r) PROVE ApprovedInv'
  <2>1. root' = Append(root, <<"generate", r>>) /\ taken' = taken
    BY <1>5 DEF Generate, AgentStep, agentUnchanged, driverVars,
        groupVars, peerVars
  <2>2. <<"generate", r>> \in Word
    BY Words
  <2>9. QED BY <2>1, <2>2, ApprovedLogs
<1>6. ASSUME NEW r \in Reports, Validate(r) PROVE ApprovedInv'
  <2>1. taken' = taken /\ \E ok \in BOOLEAN : root' = Append(root, <<"validate", r, ok>>)
    BY <1>6 DEF Validate, AgentStep, agentUnchanged, driverVars,
        groupVars, peerVars
  <2>2. PICK ok \in BOOLEAN : root' = Append(root, <<"validate", r, ok>>)
    BY <2>1
  <2>3. <<"validate", r, ok>> \in Word
    BY Words
  <2>9. QED BY <2>1, <2>2, <2>3, ApprovedLogs
<1>7. ASSUME NEW e \in Events, NEW r \in Reports, Submit(e, r) PROVE ApprovedInv'
  <2>1. root' = Append(root, <<"submit", e, r>>) /\ taken' = taken
    BY <1>7 DEF Submit, AgentStep, agentUnchanged, driverVars, groupVars,
        peerVars
  <2>2. <<"submit", e, r>> \in Word
    BY Words
  <2>3. \A j \in DOMAIN root : root[j][1] = "submit" => root[j][2] # e
    BY <1>7 DEF Submit, Kinds
  <2>9. QED BY <2>1, <2>2, <2>3, ApprovedLogs
<1>8. ASSUME NEW e \in Events, Ask(e) PROVE ApprovedInv'
  <2>1. root' = Append(root, <<"asked", e>>) /\ taken' = taken
    BY <1>8 DEF Ask, agentUnchanged, driverVars, groupVars
  <2>2. <<"asked", e>> \in Word
    BY Words
  <2>9. QED BY <2>1, <2>2, ApprovedLogs
<1>9. ASSUME NEW e \in Events, Resolve(e) PROVE ApprovedInv'
  <2>1. /\ root' = Append(root, <<"decided", e, answer[e]>>) /\ taken' = taken
        /\ answer[e] # "none"
    BY <1>9 DEF Resolve, agentUnchanged, driverVars, groupVars, peerVars
  <2>2. <<"decided", e, answer[e]>> \in Word
    <3>1. answer[e] \in {"allowed-once", "next"}
      BY <2>1 DEF PeerTypeOK, Value
    <3>2. QED BY <3>1, Words
  <2>9. QED BY <2>1, <2>2, ApprovedLogs
<1>10. ASSUME NEW e \in Events, NEW r \in Reports,
             Accept(e, r, "approved") \/ Accept(e, r, "unasked")
      PROVE  ApprovedInv'
  <2> DEFINE ok == report[r].status = "reviewed"
  <2>1. root' = Append(root, <<"result", e, ok>>)
    BY <1>10 DEF Accept
  <2>2. <<"result", e, ok>> \in Word
    BY Words
  <2>3. PICK a \in DOMAIN root : root[a] = <<"submit", e, r>>
    BY <1>10, LoggedAt DEF Accept
  <2>4. \A q \in Reports : taken[q] = "approved" => taken'[q] = "approved"
    <3>1. CASE ok
      <4>1. taken[r] = "none" /\ taken \in [Reports -> {"none", "approved", "unasked"}]
        BY <3>1 DEF ReportsInv
      <4>2. \E how \in {"approved", "unasked"} : taken' = [taken EXCEPT ![r] = how]
        BY <1>10, <3>1 DEF Accept
      <4>3. QED BY <4>1, <4>2
    <3>2. CASE ~ok
      BY <1>10, <3>2 DEF Accept
    <3>3. QED BY <3>1, <3>2
  <2>5. ASSUME NEW x \in Events, NEW q \in Reports, NEW i \in DOMAIN root, NEW j \in DOMAIN root,
               <<"result", e, ok>> = <<"result", x, TRUE>>, root[i] = <<"submit", x, q>>,
               root[j] = <<"decided", x, "allowed-once">>
        PROVE  taken'[q] = "approved"
    <3>1. x = e /\ ok
      BY <2>5
    <3>2. i = a
      BY <2>3, <2>5, <3>1 DEF RootInv, About
    <3>3. q = r
      BY <2>3, <2>5, <3>2
    <3>4. Decided(e)
      BY <2>5, <3>1, LoggedAt DEF Decided, Value
    <3>5. taken' = [taken EXCEPT ![r] = "approved"]
      BY <1>10, <3>1, <3>4 DEF Accept
    <3>6. QED BY <3>3, <3>5 DEF ReportsInv
  <2> HIDE DEF ok
  <2> DEFINE w == <<"result", e, ok>>
  <2>6. w \in Word /\ root' = Append(root, w) /\ w[1] # "submit"
    BY <2>1, <2>2
  <2>7. \A x \in Events, q \in Reports, i, j \in DOMAIN root :
          w = <<"result", x, TRUE>> /\ root[i] = <<"submit", x, q>>
            /\ root[j] = <<"decided", x, "allowed-once">> => taken'[q] = "approved"
    BY <2>5
  <2> HIDE DEF w
  <2>9. QED BY <2>4, <2>6, <2>7, ApprovedLogs
<1>11. ASSUME NEW e \in Events, Denied(e) PROVE ApprovedInv'
  <2>1. root' = Append(root, <<"result", e, FALSE>>) /\ taken' = taken
    BY <1>11 DEF Denied, agentUnchanged, driverVars, groupVars, peerVars
  <2>2. <<"result", e, FALSE>> \in Word
    BY Words
  <2>3. \A x \in Events : <<"result", e, FALSE>> # <<"result", x, TRUE>>
    OBVIOUS
  <2>9. QED BY <2>1, <2>2, <2>3, ApprovedLogs
<1>12. CASE Admit \/ Launch \/ RunAnswers \/ RunAgain \/ Wait
  <2>1. UNCHANGED <<root, taken>>
    BY <1>12, Zenon DEF Admit, AgentStep, agentUnchanged, driverVars,
        groupVars, peerVars, Launch, Spawn, worldVars, RunAnswers,
        RunAgain, Wait
  <2>2. QED BY <2>1, <1>0
<1>13. CASE Collect \/ EndTurn
  <2>1. UNCHANGED <<root, taken>>
    BY <1>13, Zenon DEF Collect, AgentStep, agentUnchanged, driverVars,
        groupVars, peerVars, EndTurn
  <2>2. QED BY <2>1, <1>0
<1>14. ASSUME NEW e \in Events, Cancel(e)
      PROVE  ApprovedInv'
  <2>1. UNCHANGED <<root, taken>>
    BY <1>14, Zenon DEF Cancel, AgentStep, agentUnchanged, driverVars,
        groupVars, worldVars
  <2>2. QED BY <2>1, <1>0
<1>15. CASE Driver \/ GiveUp
  BY <1>15, DriverFrame, <1>0 DEF DriverLeaves
<1>16. CASE PeerMoves \/ PeerWorks \/ PeerBreaks
  BY <1>16, PeerFrame, <1>0 DEF PeerLeaves
<1>17. CASE HostServes \/ HostObeys \/ HostCrashes \/ HostExits \/ RunStep
  BY <1>17, HostFrame, <1>0 DEF HostLeaves
<1>18. QED BY <1>1, <1>2, <1>3, <1>4, <1>5, <1>6, <1>7, <1>8, <1>9, <1>10, <1>11, <1>12, <1>13,
    <1>14, <1>15, <1>16, <1>17 DEF Next, World, AgentsAct

(* What a PASS is for, once it was verified it stays so.                   *)
Chained ==
  /\ exitFile = "zero" /\ known.root /\ child \in {"known", "two"}
  /\ \E r \in Reports : taken[r] = "approved" /\ drawn[r] = "collected"
Finishes == {"close", "closing", "stop", "discover", "runs", "term", "kill", "killed", "verdict", "done"}
SoundInv == pc \in Finishes /\ ~outcome.failed => Chained

(* A worker that was announced stays so.                                    *)
LEMMA ChildKept == child \in {"known", "two"} /\ Next => child' \in {"known", "two"}
<1> SUFFICES ASSUME child \in {"known", "two"}, Next PROVE child' \in {"known", "two"}
  OBVIOUS
<1>1. CASE Delegate
  BY <1>1 DEF Delegate, AgentStep, agentUnchanged, driverVars, groupVars,
      peerVars
<1>2. CASE Catalog
  BY <1>2 DEF Catalog, agentUnchanged, driverVars, groupVars, peerVars
<1>3. CASE CreateTask \/ Admit \/ Launch \/ RunAnswers \/ RunAgain
  BY <1>3 DEF CreateTask, AgentStep, agentUnchanged, driverVars,
      groupVars, peerVars, Admit, Launch, Spawn, worldVars,
      RunAnswers, RunAgain
<1>4. CASE Wait \/ Collect \/ EndTurn \/ Settled
  BY <1>4 DEF Wait, agentUnchanged, driverVars, groupVars, peerVars,
      Collect, AgentStep, EndTurn, Settled
<1>5. ASSUME NEW r \in Reports, Generate(r) \/ Validate(r)
      PROVE  child' \in {"known", "two"}
  <2>1. UNCHANGED <<child>>
    BY <1>5, Zenon DEF Generate, AgentStep, agentUnchanged, driverVars,
        groupVars, peerVars, Validate
  <2>2. QED BY <2>1
<1>6. ASSUME NEW e \in Events, Ask(e) \/ Resolve(e) \/ Cancel(e)
                               \/ Denied(e)
      PROVE  child' \in {"known", "two"}
  <2>1. UNCHANGED <<child>>
    BY <1>6, Zenon DEF Ask, agentUnchanged, driverVars, groupVars,
        Resolve, peerVars, Cancel, AgentStep, worldVars, Denied
  <2>2. QED BY <2>1
<1>7. ASSUME NEW e \in Events, NEW r \in Reports,
             Submit(e, r)
               \/ Accept(e, r, "approved") \/ Accept(e, r, "unasked")
      PROVE  child' \in {"known", "two"}
  <2>1. UNCHANGED <<child>>
    BY <1>7, Zenon DEF Submit, AgentStep, agentUnchanged, driverVars,
        groupVars, peerVars, Accept
  <2>2. QED BY <2>1
<1>8. CASE Driver \/ GiveUp
  BY <1>8, DriverFrame DEF DriverLeaves
<1>9. CASE PeerMoves \/ PeerWorks \/ PeerBreaks
  BY <1>9, PeerFrame DEF PeerLeaves
<1>10. CASE HostServes \/ HostObeys \/ HostCrashes \/ HostExits \/ RunStep
  BY <1>10, HostFrame DEF HostLeaves
<1>11. QED BY <1>1, <1>2, <1>3, <1>4, <1>5, <1>6, <1>7, <1>8, <1>9, <1>10 DEF Next,
    World, AgentsAct

(* The driver does not forget its session.                                  *)
LEMMA KnownKept == DriverInv /\ known.root /\ Next => known'.root
<1> SUFFICES ASSUME DriverInv, known.root, Next PROVE known'.root
  OBVIOUS
<1>0. known' = known => known'.root
  OBVIOUS
<1>z. known \in [root : BOOLEAN, worker : BOOLEAN]
  BY DEF DriverInv
<1>1. CASE CreateSession
  BY <1>1, <1>z DEF CreateSession, Move
<1>2. CASE Round
  BY <1>2, <1>z DEF Round
<1>3. CASE FinalWorker
  BY <1>3, <1>z DEF FinalWorker, Move
<1>4. CASE Discover
  BY <1>4, <1>z DEF Discover, Move
<1>5. CASE Prepare \/ StartHost \/ Ready \/ ApprovalsOpen
           \/ ApprovalsFail
  <2>1. UNCHANGED <<known>>
    BY <1>5, Zenon DEF Prepare, Move, driverUnchanged, groupVars,
        peerVars, worldVars, StartHost, SpawnHost, Ready,
        ApprovalsOpen, Opened, ApprovalsFail, BeginClose, driverVars
  <2>2. QED BY <2>1, <1>0
<1>6. CASE ApprovalsThrow \/ Prompt \/ FinalRoot \/ Verify \/ Close
  <2>1. UNCHANGED <<known>>
    BY <1>6, Zenon DEF ApprovalsThrow, Move, driverUnchanged, groupVars,
        peerVars, worldVars, Prompt, FinalRoot, Verify, Close,
        BeginClose
  <2>2. QED BY <2>1, <1>0
<1>7. CASE ClosePeer \/ Closed \/ Stop \/ CleanUpRuns \/ RunStopped
  <2>1. UNCHANGED <<known>>
    BY <1>7, Zenon DEF ClosePeer, PeerClose, DrainTimesOut, Drained,
        Shut, Joined, driverUnchanged, driverVars, groupVars,
        worldVars, Closed, Move, peerVars, Stop, StopHost,
        Stopped, StopSignal, StopFails, CleanUpRuns, RunStopped,
        StopRun, StopGroup, GroupQuiet, GroupUnproved
  <2>2. QED BY <2>1, <1>0
<1>8. CASE Judge \/ GiveUp
  <2>1. UNCHANGED <<known>>
    BY <1>8, Zenon DEF Judge, Verdict, Move, driverUnchanged, groupVars,
        peerVars, worldVars, GiveUp
  <2>2. QED BY <2>1, <1>0
<1>9. CASE AgentsAct
  BY <1>9, AgentsFrame, <1>0 DEF AgentsLeave
<1>10. CASE PeerMoves \/ PeerWorks \/ PeerBreaks
  BY <1>10, PeerFrame, <1>0 DEF PeerLeaves
<1>11. CASE HostServes \/ HostObeys \/ HostCrashes \/ HostExits \/ RunStep
  BY <1>11, HostFrame, <1>0 DEF HostLeaves
<1>12. QED BY <1>1, <1>2, <1>3, <1>4, <1>5, <1>6, <1>7, <1>8, <1>9, <1>10, <1>11 DEF Next,
    World, Driver

(* A report that was accepted upon an approval stays so, and its run with it. *)
LEMMA TakenKept ==
  ASSUME ReportsInv, Next, NEW r \in Reports, taken[r] = "approved"
  PROVE  taken'[r] = "approved" /\ drawn'[r] = drawn[r]
<1>0. UNCHANGED <<drawn, taken>> => taken'[r] = "approved" /\ drawn'[r] = drawn[r]
  OBVIOUS
<1>z. report[r].status = "accepted" /\ taken \in [Reports -> {"none", "approved", "unasked"}]
  BY DEF ReportsInv
<1>1. ASSUME NEW q \in Reports, Generate(q) PROVE taken'[r] = "approved" /\ drawn'[r] = drawn[r]
  <2>1. report[q] = NoReport /\ taken' = taken
        /\ drawn' = [drawn EXCEPT ![q] = IF job = "collected" THEN "collected" ELSE "early"]
    BY <1>1 DEF Generate
  <2>2. q # r
    BY <2>1, <1>z DEF NoReport
  <2>3. QED BY <2>1, <2>2
<1>2. ASSUME NEW e \in Events, NEW q \in Reports,
             Accept(e, q, "approved") \/ Accept(e, q, "unasked")
      PROVE  taken'[r] = "approved" /\ drawn'[r] = drawn[r]
  <2>1. /\ drawn' = drawn
        /\ \/ report[q].status = "reviewed" /\ \E how \in {"approved", "unasked"} : taken' = [taken EXCEPT ![q] = how]
           \/ taken' = taken
    BY <1>2 DEF Accept
  <2>2. report[q].status = "reviewed" => q # r
    BY <1>z
  <2>3. QED BY <2>1, <2>2, <1>z
<1>3. CASE CreateTask \/ Delegate \/ Catalog \/ Admit \/ Launch
  <2>1. UNCHANGED <<drawn, taken>>
    BY <1>3, Zenon DEF CreateTask, AgentStep, agentUnchanged, driverVars,
        groupVars, peerVars, Delegate, Catalog, Admit, Launch,
        Spawn, worldVars
  <2>2. QED BY <2>1, <1>0
<1>4. CASE RunAnswers \/ RunAgain \/ Wait \/ Collect \/ EndTurn
  <2>1. UNCHANGED <<drawn, taken>>
    BY <1>4, Zenon DEF RunAnswers, agentUnchanged, driverVars, groupVars,
        peerVars, RunAgain, AgentStep, Wait, Collect, EndTurn
  <2>2. QED BY <2>1, <1>0
<1>5. CASE Settled
  <2>1. UNCHANGED <<drawn, taken>>
    BY <1>5, Zenon DEF Settled, agentUnchanged, driverVars, groupVars,
        peerVars
  <2>2. QED BY <2>1, <1>0
<1>6. ASSUME NEW q \in Reports, Validate(q)
      PROVE  taken'[r] = "approved" /\ drawn'[r] = drawn[r]
  <2>1. UNCHANGED <<drawn, taken>>
    BY <1>6, Zenon DEF Validate, AgentStep, agentUnchanged, driverVars,
        groupVars, peerVars
  <2>2. QED BY <2>1, <1>0
<1>7. ASSUME NEW e \in Events, Ask(e) \/ Resolve(e) \/ Cancel(e)
                               \/ Denied(e)
      PROVE  taken'[r] = "approved" /\ drawn'[r] = drawn[r]
  <2>1. UNCHANGED <<drawn, taken>>
    BY <1>7, Zenon DEF Ask, agentUnchanged, driverVars, groupVars,
        Resolve, peerVars, Cancel, AgentStep, worldVars, Denied
  <2>2. QED BY <2>1, <1>0
<1>8. ASSUME NEW e \in Events, NEW q \in Reports, Submit(e, q)
      PROVE  taken'[r] = "approved" /\ drawn'[r] = drawn[r]
  <2>1. UNCHANGED <<drawn, taken>>
    BY <1>8, Zenon DEF Submit, AgentStep, agentUnchanged, driverVars,
        groupVars, peerVars
  <2>2. QED BY <2>1, <1>0
<1>9. CASE Driver \/ GiveUp
  BY <1>9, DriverFrame, <1>0 DEF DriverLeaves
<1>10. CASE PeerMoves \/ PeerWorks \/ PeerBreaks
  BY <1>10, PeerFrame, <1>0 DEF PeerLeaves
<1>11. CASE HostServes \/ HostObeys \/ HostCrashes \/ HostExits \/ RunStep
  BY <1>11, HostFrame, <1>0 DEF HostLeaves
<1>12. QED BY <1>1, <1>2, <1>3, <1>4, <1>5, <1>6, <1>7, <1>8, <1>9, <1>10, <1>11 DEF Next,
    World, AgentsAct

(* What a PASS is for stays so.                                             *)
LEMMA ChainedKept ==
  ASSUME ExecutionInv, DriverInv, ReportsInv, Next, Chained
  PROVE  Chained'
<1>1. exitFile' = "zero"
  BY ExitKept DEF Chained
<1>2. known'.root
  BY KnownKept DEF Chained
<1>3. child' \in {"known", "two"}
  BY ChildKept DEF Chained
<1>4. PICK r \in Reports : taken[r] = "approved" /\ drawn[r] = "collected"
  BY DEF Chained
<1>5. taken'[r] = "approved" /\ drawn'[r] = "collected"
  BY <1>4, TakenKept
<1>6. QED BY <1>1, <1>2, <1>3, <1>5 DEF Chained

(* The first place of what is logged.                                       *)
LEMMA FirstAt ==
  ASSUME NEW s, NEW x, Logged(s, x)
  PROVE  At(s, x) \in DOMAIN s /\ s[At(s, x)] = x
<1>1. \E i \in DOMAIN s : s[i] = x
  BY LoggedAt
<1>2. QED BY <1>1 DEF At

(* The evidence the driver accepts is about what happened.                  *)
LEMMA EvidenceHolds ==
  ASSUME WorkerInv, RootInv, ReportsInv, ApprovedInv, known.root, FirstTaskEvidence
  PROVE  Chained
<1>1. PICK e \in Events, r \in Reports : Approved(ev.root, e, r) /\ JoinedRecords(r)
  BY DEF FirstTaskEvidence
<1>2. exitFile = "zero"
  <2>1. Logged(ev.worker, <<"collect", "zero">>)
    BY DEF FirstTaskEvidence, WorkerChain, Before
  <2>2. PICK i \in DOMAIN ev.worker : ev.worker[i] = <<"collect", "zero">>
    BY <2>1, LoggedAt
  <2>3. i \in DOMAIN worker /\ worker[i] = <<"collect", "zero">>
    BY <2>2 DEF WorkerInv, Begins
  <2>4. QED BY <2>3 DEF WorkerInv
<1>3. child \in {"known", "two"}
  <2>1. Logged(ev.root, <<"catalog">>)
    BY DEF FirstTaskEvidence, Delegation, Before
  <2>2. PICK i \in DOMAIN ev.root : ev.root[i] = <<"catalog">>
    BY <2>1, LoggedAt
  <2>3. QED BY <2>2 DEF RootInv, Begins
<1>4. AcceptedUpon(root, e, r)
  <2> DEFINE x == <<"submit", e, r>>
             y == <<"decided", e, "allowed-once">>
             z == <<"result", e, TRUE>>
  <2>1. /\ Logged(ev.root, x) /\ Logged(ev.root, y) /\ Logged(ev.root, z)
        /\ At(ev.root, y) < At(ev.root, z)
    BY <1>1 DEF Approved, Before
  <2> HIDE DEF x, y, z
  <2>2. /\ At(ev.root, x) \in DOMAIN root /\ root[At(ev.root, x)] = x
        /\ At(ev.root, y) \in DOMAIN root /\ root[At(ev.root, y)] = y
        /\ At(ev.root, z) \in DOMAIN root /\ root[At(ev.root, z)] = z
    BY <2>1, FirstAt DEF RootInv, Begins
  <2>3. QED BY <2>1, <2>2 DEF AcceptedUpon, x, y, z
<1>5. taken[r] = "approved"
  BY <1>4 DEF ApprovedInv
<1>6. drawn[r] = "collected"
  BY <1>1 DEF JoinedRecords, ReportsInv
<1>7. QED BY <1>2, <1>3, <1>5, <1>6 DEF Chained

(* A verdict without a failure is reached through the verification only.   *)
Entered ==
  pc' \in Finishes /\ ~outcome'.failed =>
    \/ pc \in Finishes /\ ~outcome.failed
    \/ known.root /\ FirstTaskEvidence
(* The stages before the verification end in a failure or in it.            *)
LEMMA Enters ==
  ASSUME DriverInv, Next PROVE Entered
<1> USE DEF Finishes
<1>0. UNCHANGED <<pc, outcome>> => Entered
  BY DEF Entered
<1>y. outcome \in OutcomeRecord
  BY DEF DriverInv
<1>1. CASE Prepare
  BY <1>1 DEF Entered, Prepare, Move
<1>2. CASE StartHost
  BY <1>2 DEF Entered, StartHost, Move, SpawnHost
<1>3. CASE Ready
  BY <1>3 DEF Entered, Ready, Move
<1>4. CASE CreateSession
  BY <1>4 DEF Entered, CreateSession, Move
<1>5. CASE ApprovalsOpen
  BY <1>5 DEF Entered, ApprovalsOpen, Move
<1>6. CASE ApprovalsThrow
  <2>1. outcome' = [outcome EXCEPT !.failed = TRUE]
    BY <1>6 DEF ApprovalsThrow
  <2>2. QED BY <2>1, <1>y DEF Entered, OutcomeRecord
<1>7. CASE Prompt
  BY <1>7 DEF Entered, Prompt, Move
<1>8. CASE Round
  BY <1>8 DEF Entered, Round
<1>9. CASE FinalRoot
  BY <1>9 DEF Entered, FinalRoot, Move
<1>10. CASE FinalWorker
  BY <1>10 DEF Entered, FinalWorker, Move
<1>11. CASE Verify
  <2>1. outcome' = [outcome EXCEPT !.failed = ~FirstTaskEvidence]
    BY <1>11 DEF Verify
  <2>2. pc = "verify"
    BY <1>11 DEF Verify, Move
  <2>3. known.root
    BY <2>2 DEF DriverInv, Asking
  <2>4. outcome'.failed = ~FirstTaskEvidence
    BY <2>1, <1>y DEF OutcomeRecord
  <2>5. QED BY <2>3, <2>4, Zenon DEF Entered
<1>12. CASE Close
  <2>1. pc = "close" /\ outcome' = outcome
    BY <1>12 DEF Close
  <2>2. QED BY <2>1 DEF Entered
<1>13. CASE Closed
  <2>1. pc \in {"closing"} /\ \E n \in Nat : outcome' \in {outcome, [outcome EXCEPT !.errors = n]}
    <3>1. pc = "closing" /\ outcome' \in {outcome, [outcome EXCEPT !.errors = outcome.errors + 1]}
      BY <1>13 DEF Closed, Move
    <3>2. outcome.errors + 1 \in Nat
      BY <1>y DEF OutcomeRecord
    <3>3. QED BY <3>1, <3>2
  <2>2. outcome'.failed = outcome.failed
    BY <2>1, <1>y DEF OutcomeRecord
  <2>3. QED BY <2>1, <2>2 DEF Entered
<1>14. CASE Stop
  <2>1. pc = "stop" /\ (Stopped(1, "discover") \/ StopSignal(1) \/ StopFails(1, "discover"))
    BY <1>14 DEF Stop, StopHost
  <2>2. outcome' \in {outcome, [outcome EXCEPT !.errors = outcome.errors + 1]}
    BY <2>1 DEF Stopped, StopSignal, StopFails
  <2>3. outcome'.failed = outcome.failed
    BY <2>2, <1>y DEF OutcomeRecord
  <2>4. pc = "stop"
    BY <2>1
  <2>5. QED BY <2>4, <2>3 DEF Entered
<1>15. CASE Discover
  <2>1. pc \in {"discover"} /\ \E n \in Nat : outcome' \in {outcome, [outcome EXCEPT !.errors = n]}
    <3>1. pc = "discover" /\ outcome' \in {outcome, [outcome EXCEPT !.errors = outcome.errors + 1]}
      BY <1>15 DEF Discover, Move
    <3>2. outcome.errors + 1 \in Nat
      BY <1>y DEF OutcomeRecord
    <3>3. QED BY <3>1, <3>2
  <2>2. outcome'.failed = outcome.failed
    BY <2>1, <1>y DEF OutcomeRecord
  <2>3. QED BY <2>1, <2>2 DEF Entered
<1>16. CASE CleanUpRuns
  <2>1. pc = "runs" /\ \E n \in {0, 1} : outcome' = [outcome EXCEPT !.errors = outcome.errors + n]
    <3>1. \A found : CleanUp(found).errors \in {0, 1}
      BY DEF CleanUp
    <3>2. QED BY <1>16, <3>1 DEF CleanUpRuns
  <2>2. outcome'.failed = outcome.failed
    BY <2>1, <1>y DEF OutcomeRecord
  <2>3. QED BY <2>1, <2>2 DEF Entered
<1>17. CASE RunStopped
  <2>1. pc \in {"term", "kill", "killed"} /\ \E n \in Nat : outcome' \in {outcome, [outcome EXCEPT !.errors = n]}
    BY <1>17, <1>y DEF OutcomeRecord, RunStopped, StopRun, StopGroup,
        GroupQuiet, GroupUnproved
  <2>2. outcome'.failed = outcome.failed
    BY <2>1, <1>y DEF OutcomeRecord
  <2>3. QED BY <2>1, <2>2 DEF Entered
<1>18. CASE Judge
  <2>1. pc = "verdict" /\ \E v \in {"PASS", "FAIL"} : outcome' = [outcome EXCEPT !.verdict = v]
    BY <1>18 DEF Judge, Verdict, Move
  <2>2. outcome'.failed = outcome.failed
    BY <2>1, <1>y DEF OutcomeRecord
  <2>3. QED BY <2>1, <2>2 DEF Entered
<1>19. CASE GiveUp
  <2>1. outcome' = [outcome EXCEPT !.failed = TRUE]
    BY <1>19 DEF GiveUp
  <2>2. QED BY <2>1, <1>y DEF Entered, OutcomeRecord
<1>20. CASE ApprovalsFail \/ ClosePeer
  <2>1. UNCHANGED <<pc, outcome>>
    BY <1>20, Zenon DEF ApprovalsFail, BeginClose, driverUnchanged,
        driverVars, groupVars, worldVars, ClosePeer, PeerClose,
        DrainTimesOut, Drained, Shut, Joined
  <2>2. QED BY <2>1, <1>0
<1>21. CASE AgentsAct
  BY <1>21, AgentsFrame, <1>0 DEF AgentsLeave
<1>22. CASE PeerMoves \/ PeerWorks \/ PeerBreaks
  BY <1>22, PeerFrame, <1>0 DEF PeerLeaves
<1>23. CASE HostServes \/ HostObeys \/ HostCrashes \/ HostExits \/ RunStep
  BY <1>23, HostFrame, <1>0 DEF HostLeaves
<1>24. QED BY <1>1, <1>2, <1>3, <1>4, <1>5, <1>6, <1>7, <1>8, <1>9, <1>10, <1>11, <1>12, <1>13,
    <1>14, <1>15, <1>16, <1>17, <1>18, <1>19, <1>20, <1>21, <1>22, <1>23 DEF Next,
    World, Driver

(* A verdict without a failure keeps what it rests on.                      *)
LEMMA SoundStep ==
  ASSUME ExecutionInv, DriverInv, WorkerInv, RootInv, ReportsInv, ApprovedInv, SoundInv, Next
  PROVE  SoundInv'
<1> SUFFICES ASSUME pc' \in Finishes, ~outcome'.failed PROVE Chained'
  BY DEF SoundInv
<1>1. Chained
  <2>1. CASE pc \in Finishes /\ ~outcome.failed
    BY <2>1 DEF SoundInv
  <2>2. CASE known.root /\ FirstTaskEvidence
    BY <2>2, EvidenceHolds
  <2>3. QED BY <2>1, <2>2, Enters DEF Entered
<1>2. QED BY <1>1, ChainedKept

(* What a verdict without clean-up errors has made sure of, phase by phase. *)
ErrorFree == outcome.errors = 0
Sweeps == {"runs", "term", "kill", "killed", "verdict", "done"}
Swept == {"term", "kill", "killed", "verdict", "done"}
ClosedInv ==
  /\ pc \in Sweeps /\ ErrorFree /\ known.root => child # "two"
  /\ pc \in Swept /\ ErrorFree => extra = "none"
  /\ pc \in {"verdict", "done"} /\ ErrorFree => ~Executing
VerdictInv ==
  /\ outcome.verdict # "none" => pc = "done"
  /\ outcome.verdict = "PASS" => ~outcome.failed /\ outcome.errors = 0

(* One field of the outcome is set.                                         *)
LEMMA OutcomeSet ==
  ASSUME NEW o \in OutcomeRecord, NEW n \in Nat, NEW b \in BOOLEAN
  PROVE  /\ o.errors \in Nat /\ [o EXCEPT !.errors = n].errors = n /\ [o EXCEPT !.failed = b].errors = o.errors
         /\ [o EXCEPT !.errors = n].verdict = o.verdict /\ [o EXCEPT !.failed = b].verdict = o.verdict
         /\ [o EXCEPT !.errors = n].failed = o.failed
         /\ \A v \in {"PASS", "FAIL"} : /\ [o EXCEPT !.verdict = v].errors = o.errors
                                       /\ [o EXCEPT !.verdict = v].verdict = v
                                       /\ [o EXCEPT !.verdict = v].failed = o.failed
BY DEF OutcomeRecord

(* Nothing starts to execute once the host is dead.                         *)
LEMMA QuietKept ==
  ASSUME ExecutionInv, ~Executing, ~Alive(1), Next
  PROVE  ~Executing'
<1>a. leader \notin {"boot", "solving", "ending", "zero", "nonzero"} /\ solver = FALSE
  BY DEF Executing, Living, Code, ExecutionInv, GroupTypeOK
<1>0. UNCHANGED <<leader, solver>> => ~Executing'
  BY <1>a DEF Executing, Living, Code
<1>1. CASE Launch
  <2>1. Serving
    BY <1>1 DEF Launch
  <2>2. QED BY <2>1 DEF Serving, Alive
<1>2. CASE RunStep
  <2>1. PublishPid \/ PublishExit \/ WrapperExits \/ Deliver
        \/ PidReused \/ AlienExits \/ \E code \in Code : SolverEnds(code)
    BY <1>2 DEF RunStep, GroupStep
  <2>2. leader' \notin {"boot", "solving", "ending", "zero", "nonzero"} /\ solver' = FALSE
    BY <2>1, <1>a DEF PublishPid, PublishExit, WrapperExits, Deliver,
        PidReused, AlienExits, SolverEnds, Living, Code
  <2>3. QED BY <2>2 DEF Executing, Living, Code
<1>3. CASE RunStopped
  <2>1. UNCHANGED <<leader, solver>>
    BY <1>3 DEF RunStopped, StopRun, StopGroup, GroupQuiet,
        GroupUnproved, groupVars
  <2>2. QED BY <2>1, <1>0
<1>4. CASE CreateTask \/ Delegate \/ Catalog \/ Admit \/ RunAnswers
  <2>1. UNCHANGED <<leader, solver>>
    BY <1>4, Zenon DEF CreateTask, AgentStep, agentUnchanged, driverVars,
        groupVars, peerVars, Delegate, Catalog, Admit, RunAnswers
  <2>2. QED BY <2>1, <1>0
<1>5. CASE RunAgain \/ Wait \/ Collect \/ EndTurn \/ Settled
  <2>1. UNCHANGED <<leader, solver>>
    BY <1>5, Zenon DEF RunAgain, AgentStep, agentUnchanged, driverVars,
        groupVars, peerVars, Wait, Collect, EndTurn, Settled
  <2>2. QED BY <2>1, <1>0
<1>6. CASE HostServes \/ HostObeys \/ HostCrashes \/ HostExits
           \/ Prepare
  <2>1. UNCHANGED <<leader, solver>>
    BY <1>6, Zenon DEF HostServes, groupVars, peerVars, worldVars,
        HostObeys, Obeys, Ends, HostCrashes, HostExits, ChildEvent,
        Prepare, Move, driverUnchanged
  <2>2. QED BY <2>1, <1>0
<1>7. CASE StartHost \/ Ready \/ CreateSession \/ ApprovalsOpen
           \/ ApprovalsFail
  <2>1. UNCHANGED <<leader, solver>>
    BY <1>7, Zenon DEF StartHost, SpawnHost, Move, driverUnchanged,
        groupVars, peerVars, worldVars, Ready, CreateSession,
        OpenPeer, ApprovalsOpen, Opened, ApprovalsFail, BeginClose,
        driverVars
  <2>2. QED BY <2>1, <1>0
<1>8. CASE ApprovalsThrow \/ Prompt \/ Round \/ FinalRoot
           \/ FinalWorker
  <2>1. UNCHANGED <<leader, solver>>
    BY <1>8, Zenon DEF ApprovalsThrow, Move, driverUnchanged, groupVars,
        peerVars, worldVars, Prompt, Round, FinalRoot, FinalWorker
  <2>2. QED BY <2>1, <1>0
<1>9. CASE Verify \/ Close \/ ClosePeer \/ Closed \/ Stop
  <2>1. UNCHANGED <<leader, solver>>
    BY <1>9, Zenon DEF Verify, Move, driverUnchanged, groupVars,
        peerVars, worldVars, Close, BeginClose, ClosePeer,
        PeerClose, DrainTimesOut, Drained, Shut, Joined, driverVars,
        Closed, Stop, StopHost, Stopped, StopSignal, StopFails
  <2>2. QED BY <2>1, <1>0
<1>10. CASE Discover \/ CleanUpRuns \/ Judge \/ GiveUp
  <2>1. UNCHANGED <<leader, solver>>
    BY <1>10, Zenon DEF Discover, Move, driverUnchanged, groupVars,
        peerVars, worldVars, CleanUpRuns, Judge, Verdict, GiveUp
  <2>2. QED BY <2>1, <1>0
<1>11. ASSUME NEW r \in Reports, Generate(r) \/ Validate(r)
      PROVE  ~Executing'
  <2>1. UNCHANGED <<leader, solver>>
    BY <1>11, Zenon DEF Generate, AgentStep, agentUnchanged, driverVars,
        groupVars, peerVars, Validate
  <2>2. QED BY <2>1, <1>0
<1>12. ASSUME NEW e \in Events, Ask(e) \/ Resolve(e) \/ Cancel(e)
                                \/ Denied(e)
      PROVE  ~Executing'
  <2>1. UNCHANGED <<leader, solver>>
    BY <1>12, Zenon DEF Ask, agentUnchanged, driverVars, groupVars,
        Resolve, peerVars, Cancel, AgentStep, worldVars, Denied
  <2>2. QED BY <2>1, <1>0
<1>13. ASSUME NEW e \in Events, NEW r \in Reports,
              Submit(e, r)
                \/ Accept(e, r, "approved") \/ Accept(e, r, "unasked")
      PROVE  ~Executing'
  <2>1. UNCHANGED <<leader, solver>>
    BY <1>13, Zenon DEF Submit, AgentStep, agentUnchanged, driverVars,
        groupVars, peerVars, Accept
  <2>2. QED BY <2>1, <1>0
<1>14. CASE PeerMoves \/ PeerWorks \/ PeerBreaks
  BY <1>14, PeerFrame, <1>0 DEF PeerLeaves
<1>15. QED BY <1>1, <1>2, <1>3, <1>4, <1>5, <1>6, <1>7, <1>8, <1>9, <1>10, <1>11, <1>12, <1>13,
    <1>14 DEF Next, World, Driver, AgentsAct

(* Without a host nobody starts a second run or worker.                     *)
LEMMA SweptKept ==
  ASSUME pc \in Past, ~Alive(1), Next
  PROVE  extra' = extra /\ (child # "two" => child' # "two")
<1>a. ~Serving
  BY DEF Serving, Alive
<1>0. UNCHANGED <<extra, child>> => extra' = extra /\ (child # "two" => child' # "two")
  OBVIOUS
<1>1. CASE Delegate
  BY <1>1, <1>a DEF Delegate, AgentStep
<1>2. CASE Catalog
  BY <1>2, <1>a DEF Catalog, AgentStep
<1>3. CASE RunAgain
  BY <1>3, <1>a DEF RunAgain, AgentStep
<1>4. CASE CreateTask \/ Admit \/ Launch \/ RunAnswers \/ Wait
  <2>1. UNCHANGED <<child, extra>>
    BY <1>4, Zenon DEF CreateTask, AgentStep, agentUnchanged, driverVars,
        groupVars, peerVars, Admit, Launch, Spawn, worldVars,
        RunAnswers, Wait
  <2>2. QED BY <2>1, <1>0
<1>5. CASE Collect \/ EndTurn \/ Settled
  <2>1. UNCHANGED <<child, extra>>
    BY <1>5, Zenon DEF Collect, AgentStep, agentUnchanged, driverVars,
        groupVars, peerVars, EndTurn, Settled
  <2>2. QED BY <2>1, <1>0
<1>6. ASSUME NEW r \in Reports, Generate(r) \/ Validate(r)
      PROVE  extra' = extra /\ (child # "two" => child' # "two")
  <2>1. UNCHANGED <<child, extra>>
    BY <1>6, Zenon DEF Generate, AgentStep, agentUnchanged, driverVars,
        groupVars, peerVars, Validate
  <2>2. QED BY <2>1, <1>0
<1>7. ASSUME NEW e \in Events, Ask(e) \/ Resolve(e) \/ Cancel(e)
                               \/ Denied(e)
      PROVE  extra' = extra /\ (child # "two" => child' # "two")
  <2>1. UNCHANGED <<child, extra>>
    BY <1>7, Zenon DEF Ask, agentUnchanged, driverVars, groupVars,
        Resolve, peerVars, Cancel, AgentStep, worldVars, Denied
  <2>2. QED BY <2>1, <1>0
<1>8. ASSUME NEW e \in Events, NEW r \in Reports,
             Submit(e, r)
               \/ Accept(e, r, "approved") \/ Accept(e, r, "unasked")
      PROVE  extra' = extra /\ (child # "two" => child' # "two")
  <2>1. UNCHANGED <<child, extra>>
    BY <1>8, Zenon DEF Submit, AgentStep, agentUnchanged, driverVars,
        groupVars, peerVars, Accept
  <2>2. QED BY <2>1, <1>0
<1>9. CASE Driver \/ GiveUp
  BY <1>9, DriverFrame, <1>0 DEF DriverLeaves
<1>10. CASE PeerMoves \/ PeerWorks \/ PeerBreaks
  BY <1>10, PeerFrame, <1>0 DEF PeerLeaves
<1>11. CASE HostServes \/ HostObeys \/ HostCrashes \/ HostExits \/ RunStep
  BY <1>11, HostFrame, <1>0 DEF HostLeaves
<1>12. QED BY <1>1, <1>2, <1>3, <1>4, <1>5, <1>6, <1>7, <1>8, <1>9, <1>10, <1>11 DEF Next,
    World, AgentsAct

(* A phase of the clean-up is entered from the one before it.              *)
Sweep ==
  ErrorFree' /\ pc' \in Sweeps =>
    /\ ErrorFree /\ pc \in Past /\ known'.root = known.root
    /\ pc \in Sweeps \/ (known.root => child # "two")
    /\ pc' \in Swept => pc \in Swept \/ extra = "none"
    /\ pc' \in {"verdict", "done"} => pc \in {"verdict", "done"} \/ ~Executing
(* Each phase of the clean-up follows on the one before it.                 *)
LEMMA Sweeping ==
  ASSUME ExecutionInv, DriverInv, Next PROVE Sweep
<1> USE DEF Sweeps, Swept, Past
<1>y. outcome \in OutcomeRecord /\ known \in [root : BOOLEAN, worker : BOOLEAN]
  BY DEF DriverInv
<1>0. UNCHANGED <<pc, outcome, known>> => Sweep
  BY DEF Sweep, ErrorFree
<1>x. pc' \notin Sweeps => Sweep
  BY DEF Sweep
<1>1. CASE Prepare
  <2>1. pc' \notin Sweeps
    BY <1>1 DEF Prepare, Move
  <2>2. QED BY <2>1, <1>x
<1>2. CASE StartHost
  <2>1. pc' \notin Sweeps
    BY <1>2 DEF StartHost, Move, SpawnHost
  <2>2. QED BY <2>1, <1>x
<1>3. CASE Ready
  <2>1. pc' \notin Sweeps
    BY <1>3 DEF Ready, Move
  <2>2. QED BY <2>1, <1>x
<1>4. CASE CreateSession
  <2>1. pc' \notin Sweeps
    BY <1>4 DEF CreateSession, Move
  <2>2. QED BY <2>1, <1>x
<1>5. CASE ApprovalsOpen
  <2>1. pc' \notin Sweeps
    BY <1>5 DEF ApprovalsOpen, Move
  <2>2. QED BY <2>1, <1>x
<1>6. CASE ApprovalsThrow
  <2>1. pc' \notin Sweeps
    BY <1>6 DEF ApprovalsThrow, Move
  <2>2. QED BY <2>1, <1>x
<1>7. CASE Prompt
  <2>1. pc' \notin Sweeps
    BY <1>7 DEF Prompt, Move
  <2>2. QED BY <2>1, <1>x
<1>8. CASE Round
  <2>1. pc' \notin Sweeps
    BY <1>8 DEF Round
  <2>2. QED BY <2>1, <1>x
<1>9. CASE FinalRoot
  <2>1. pc' \notin Sweeps
    BY <1>9 DEF FinalRoot, Move
  <2>2. QED BY <2>1, <1>x
<1>10. CASE FinalWorker
  <2>1. pc' \notin Sweeps
    BY <1>10 DEF FinalWorker, Move
  <2>2. QED BY <2>1, <1>x
<1>11. CASE Verify
  <2>1. pc' \notin Sweeps
    BY <1>11 DEF Verify, Move
  <2>2. QED BY <2>1, <1>x
<1>12. CASE Close
  <2>1. pc' \notin Sweeps
    BY <1>12 DEF Close
  <2>2. QED BY <2>1, <1>x
<1>13. CASE Closed
  <2>1. pc' \notin Sweeps
    BY <1>13 DEF Closed, Move
  <2>2. QED BY <2>1, <1>x
<1>14. CASE Stop
  <2>1. pc' \notin Sweeps
    BY <1>14 DEF Stop, StopHost, Stopped, StopSignal, StopFails
  <2>2. QED BY <2>1, <1>x
<1>15. CASE Discover
  <2>1. pc = "discover" /\ pc' = "runs"
    BY <1>15 DEF Discover, Move
  <2>2. PICK fails \in {FALSE, known.root} :
          /\ known' = [known EXCEPT !.worker = @ \/ (known.root /\ ~(fails \/ (known.root /\ child = "two")) /\ child # "none")]
          /\ outcome' = IF fails \/ (known.root /\ child = "two") THEN [outcome EXCEPT !.errors = @ + 1] ELSE outcome
    BY <1>15 DEF Discover
  <2>3. known'.root = known.root
    BY <2>2, <1>y
  <2>4. CASE fails \/ (known.root /\ child = "two")
    <3>1. outcome' = [outcome EXCEPT !.errors = outcome.errors + 1]
      BY <2>2, <2>4
    <3>2. outcome'.errors = outcome.errors + 1 /\ outcome.errors \in Nat
      BY <3>1, <1>y, OutcomeSet
    <3>3. ~ErrorFree'
      BY <3>2 DEF ErrorFree
    <3>4. QED BY <3>3 DEF Sweep
  <2>5. CASE ~(fails \/ (known.root /\ child = "two"))
    <3>1. outcome' = outcome /\ (known.root => child # "two")
      BY <2>2, <2>5
    <3>2. QED BY <3>1, <2>1, <2>3 DEF Sweep, ErrorFree
  <2>6. QED BY <2>4, <2>5
<1>16. CASE CleanUpRuns
  <2>1. pc = "runs" /\ known' = known
    BY <1>16 DEF CleanUpRuns
  <2>2. CASE AllExited
    <3>1. PICK found \in {"ours", "extra"} :
            /\ owned' = CleanUp(found).own
            /\ outcome' = [outcome EXCEPT !.errors = @ + CleanUp(found).errors]
            /\ pc' = IF owned' THEN "term" ELSE "verdict"
      BY <1>16, <2>2 DEF CleanUpRuns
    <3> DEFINE ours == found = "ours" /\ known.worker /\ job \in {"running", "collected"} /\ (owned \/ LiveOwn)
    <3>2. /\ CleanUp(found).own = (owned \/ ours)
          /\ CleanUp(found).errors = IF extra = "none" /\ (job = "absent" \/ ours) THEN 0 ELSE 1
      BY DEF CleanUp
    <3> HIDE DEF ours
    <3>3. outcome' = [outcome EXCEPT !.errors = outcome.errors + CleanUp(found).errors]
      BY <3>1
    <3>4. outcome'.errors = outcome.errors + CleanUp(found).errors /\ outcome.errors \in Nat
      BY <3>2, <3>3, <1>y, OutcomeSet
    <3>5. CASE ~(extra = "none" /\ (job = "absent" \/ ours))
      <4>1. outcome'.errors # 0
        BY <3>2, <3>4, <3>5
      <4>2. QED BY <4>1 DEF Sweep, ErrorFree
    <3>6. CASE extra = "none" /\ (job = "absent" \/ ours)
      <4>1. outcome'.errors = outcome.errors
        BY <3>2, <3>4, <3>6
      <4>2. CASE ours
        <5>1. pc' = "term"
          BY <3>1, <3>2, <4>2
        <5>2. QED BY <5>1, <2>1, <3>6, <4>1 DEF Sweep, ErrorFree
      <4>3. CASE job = "absent"
        <5>1. ~Executing
          BY <4>3 DEF Executing, Living, Code, ExecutionInv
        <5>2. pc' \in {"term", "verdict"}
          BY <3>1
        <5>3. QED BY <5>1, <5>2, <2>1, <3>6, <4>1 DEF Sweep, ErrorFree
      <4>4. QED BY <3>6, <4>2, <4>3
    <3>7. QED BY <3>5, <3>6
  <2>3. CASE ~AllExited
    <3>1. outcome' = [outcome EXCEPT !.errors = outcome.errors + 1]
      BY <1>16, <2>3 DEF CleanUpRuns
    <3>2. outcome'.errors = outcome.errors + 1 /\ outcome.errors \in Nat
      BY <3>1, <1>y, OutcomeSet
    <3>3. QED BY <3>2 DEF Sweep, ErrorFree
  <2>4. QED BY <2>2, <2>3
<1>17. CASE RunStopped
  <2>0. known' = known
    BY <1>17 DEF RunStopped
  <2>1. CASE GroupQuiet
    <3>1. pc \in {"term", "kill", "killed"} /\ outcome' = outcome /\ ~Executing
      BY <2>1 DEF GroupQuiet, GroupActive
    <3>2. QED BY <2>0, <3>1 DEF Sweep, ErrorFree
  <2>2. CASE GroupUnproved
    <3>1. outcome' = [outcome EXCEPT !.errors = outcome.errors + 1]
      BY <2>2 DEF GroupUnproved
    <3>2. outcome'.errors = outcome.errors + 1 /\ outcome.errors \in Nat
      BY <3>1, <1>y, OutcomeSet
    <3>3. QED BY <3>2 DEF Sweep, ErrorFree
  <2>3. CASE StopGroup("term", "term", "kill") \/ StopGroup("kill", "kill", "killed")
    <3>1. pc \in {"term", "kill"} /\ pc' \in {"kill", "killed"} /\ outcome' = outcome
      BY <2>3 DEF StopGroup
    <3>2. QED BY <2>0, <3>1 DEF Sweep, ErrorFree
  <2>4. QED BY <1>17, <2>1, <2>2, <2>3 DEF RunStopped, StopRun
<1>18. CASE Judge
  <2>1. pc = "verdict" /\ known' = known /\ \E v \in {"PASS", "FAIL"} : outcome' = [outcome EXCEPT !.verdict = v]
    BY <1>18 DEF Judge, Verdict, Move
  <2>2. outcome'.errors = outcome.errors
    BY <2>1, <1>y, OutcomeSet
  <2>3. QED BY <2>1, <2>2 DEF Sweep, ErrorFree
<1>19. CASE GiveUp
  <2>1. pc' \notin Sweeps
    BY <1>19 DEF GiveUp
  <2>2. QED BY <2>1, <1>x
<1>20. CASE ApprovalsFail \/ ClosePeer
  <2>1. UNCHANGED <<pc, outcome, known>>
    BY <1>20, Zenon DEF ApprovalsFail, BeginClose, driverUnchanged,
        driverVars, groupVars, worldVars, ClosePeer, PeerClose,
        DrainTimesOut, Drained, Shut, Joined
  <2>2. QED BY <2>1, <1>0
<1>21. CASE AgentsAct
  BY <1>21, AgentsFrame, <1>0 DEF AgentsLeave
<1>22. CASE PeerMoves \/ PeerWorks \/ PeerBreaks
  BY <1>22, PeerFrame, <1>0 DEF PeerLeaves
<1>23. CASE HostServes \/ HostObeys \/ HostCrashes \/ HostExits \/ RunStep
  BY <1>23, HostFrame, <1>0 DEF HostLeaves
<1>24. QED BY <1>1, <1>2, <1>3, <1>4, <1>5, <1>6, <1>7, <1>8, <1>9, <1>10, <1>11, <1>12, <1>13,
    <1>14, <1>15, <1>16, <1>17, <1>18, <1>19, <1>20, <1>21, <1>22, <1>23 DEF Next,
    World, Driver

(* Every step keeps what the clean-up has made sure of.                     *)
LEMMA ClosedStep ==
  ASSUME ExecutionInv, DriverInv, ClosedInv, Next
  PROVE  ClosedInv'
<1> SUFFICES ASSUME ErrorFree', pc' \in Sweeps
             PROVE  /\ known'.root => child' # "two"
                    /\ pc' \in Swept => extra' = "none"
                    /\ pc' \in {"verdict", "done"} => ~Executing'
  BY DEF ClosedInv, Sweeps, Swept
<1>1. /\ ErrorFree /\ pc \in Past /\ known'.root = known.root
      /\ pc \in Sweeps \/ (known.root => child # "two")
      /\ pc' \in Swept => pc \in Swept \/ extra = "none"
      /\ pc' \in {"verdict", "done"} => pc \in {"verdict", "done"} \/ ~Executing
  BY Sweeping DEF Sweep
<1>2. ~Alive(1)
  BY <1>1 DEF DriverInv, ErrorFree
<1>3. extra' = extra /\ (child # "two" => child' # "two")
  BY <1>1, <1>2, SweptKept
<1>4. known'.root => child' # "two"
  BY <1>1, <1>3 DEF ClosedInv
<1>5. pc' \in Swept => extra' = "none"
  BY <1>1, <1>3 DEF ClosedInv
<1>6. pc' \in {"verdict", "done"} => ~Executing'
  <2>1. pc' \in {"verdict", "done"} => ~Executing
    BY <1>1 DEF ClosedInv
  <2>2. QED BY <2>1, <1>2, QuietKept
<1>7. QED BY <1>4, <1>5, <1>6

(* The verdict is the last step.                                            *)
LEMMA VerdictStep ==
  ASSUME DriverInv, VerdictInv, Next
  PROVE  VerdictInv'
<1>y. outcome \in OutcomeRecord
  BY DEF DriverInv
<1>0. UNCHANGED <<pc, outcome>> => VerdictInv'
  BY DEF VerdictInv
<1>x. pc # "done" /\ outcome'.verdict = outcome.verdict => VerdictInv'
  BY DEF VerdictInv
<1>1. CASE Prepare
  <2>1. pc # "done" /\ outcome' = outcome
    BY <1>1 DEF Prepare, Move
  <2>2. QED BY <2>1, <1>x
<1>2. CASE StartHost
  <2>1. pc # "done" /\ outcome' = outcome
    BY <1>2 DEF StartHost, Move, SpawnHost
  <2>2. QED BY <2>1, <1>x
<1>3. CASE Ready
  <2>1. pc # "done" /\ outcome' = outcome
    BY <1>3 DEF Ready, Move
  <2>2. QED BY <2>1, <1>x
<1>4. CASE CreateSession
  <2>1. pc # "done" /\ outcome' = outcome
    BY <1>4 DEF CreateSession, Move
  <2>2. QED BY <2>1, <1>x
<1>5. CASE ApprovalsOpen
  <2>1. pc # "done" /\ outcome' = outcome
    BY <1>5 DEF ApprovalsOpen, Move
  <2>2. QED BY <2>1, <1>x
<1>6. CASE ApprovalsThrow
  <2>1. pc # "done" /\ \/ outcome' = outcome
                         \/ \E n \in Nat : outcome' = [outcome EXCEPT !.errors = n]
                         \/ \E b \in BOOLEAN : outcome' = [outcome EXCEPT !.failed = b]
    BY <1>6, <1>y DEF OutcomeRecord, ApprovalsThrow, Move
  <2>2. outcome'.verdict = outcome.verdict
    BY <2>1, <1>y DEF OutcomeRecord
  <2>3. QED BY <2>1, <2>2, <1>x
<1>7. CASE Prompt
  <2>1. pc # "done" /\ outcome' = outcome
    BY <1>7 DEF Prompt, Move
  <2>2. QED BY <2>1, <1>x
<1>8. CASE Round
  <2>1. pc # "done" /\ outcome' = outcome
    BY <1>8 DEF Round
  <2>2. QED BY <2>1, <1>x
<1>9. CASE FinalRoot
  <2>1. pc # "done" /\ outcome' = outcome
    BY <1>9 DEF FinalRoot, Move
  <2>2. QED BY <2>1, <1>x
<1>10. CASE FinalWorker
  <2>1. pc # "done" /\ outcome' = outcome
    BY <1>10 DEF FinalWorker, Move
  <2>2. QED BY <2>1, <1>x
<1>11. CASE Verify
  <2>1. pc # "done" /\ outcome' = [outcome EXCEPT !.failed = ~FirstTaskEvidence]
    BY <1>11 DEF Verify, Move
  <2>2. (~FirstTaskEvidence) \in BOOLEAN
    OBVIOUS
  <2>3. outcome'.verdict = outcome.verdict
    BY <2>1, <1>y DEF OutcomeRecord
  <2>4. pc # "done"
    BY <2>1
  <2>5. QED BY <2>3, <2>4, <1>x
<1>12. CASE Close
  <2>1. pc # "done" /\ outcome' = outcome
    BY <1>12 DEF Close
  <2>2. QED BY <2>1, <1>x
<1>13. CASE Closed
  <2>1. pc # "done" /\ \/ outcome' = outcome
                         \/ \E n \in Nat : outcome' = [outcome EXCEPT !.errors = n]
                         \/ \E b \in BOOLEAN : outcome' = [outcome EXCEPT !.failed = b]
    <3>1. pc = "closing" /\ outcome' \in {outcome, [outcome EXCEPT !.errors = outcome.errors + 1]}
      BY <1>13 DEF Closed, Move
    <3>2. outcome.errors + 1 \in Nat
      BY <1>y DEF OutcomeRecord
    <3>3. QED BY <3>1, <3>2
  <2>2. outcome'.verdict = outcome.verdict
    BY <2>1, <1>y DEF OutcomeRecord
  <2>3. QED BY <2>1, <2>2, <1>x
<1>14. CASE Stop
  <2>1. pc = "stop" /\ (Stopped(1, "discover") \/ StopSignal(1) \/ StopFails(1, "discover"))
    BY <1>14 DEF Stop, StopHost
  <2>2. outcome' \in {outcome, [outcome EXCEPT !.errors = outcome.errors + 1]}
    BY <2>1 DEF Stopped, StopSignal, StopFails
  <2>3. outcome'.verdict = outcome.verdict
    BY <2>2, <1>y DEF OutcomeRecord
  <2>4. pc # "done"
    BY <2>1
  <2>5. QED BY <2>3, <2>4, <1>x
<1>15. CASE Discover
  <2>1. pc # "done" /\ \/ outcome' = outcome
                         \/ \E n \in Nat : outcome' = [outcome EXCEPT !.errors = n]
                         \/ \E b \in BOOLEAN : outcome' = [outcome EXCEPT !.failed = b]
    BY <1>15, <1>y DEF OutcomeRecord, Discover, Move
  <2>2. outcome'.verdict = outcome.verdict
    BY <2>1, <1>y DEF OutcomeRecord
  <2>3. QED BY <2>1, <2>2, <1>x
<1>16. CASE CleanUpRuns
  <2>1. pc = "runs" /\ \E n \in {0, 1} : outcome' = [outcome EXCEPT !.errors = outcome.errors + n]
    <3>1. \A found : CleanUp(found).errors \in {0, 1}
      BY DEF CleanUp
    <3>2. QED BY <1>16, <3>1 DEF CleanUpRuns
  <2>2. outcome'.verdict = outcome.verdict
    BY <2>1, <1>y DEF OutcomeRecord
  <2>3. QED BY <2>1, <2>2, <1>x
<1>17. CASE RunStopped
  <2>1. pc # "done" /\ \/ outcome' = outcome
                         \/ \E n \in Nat : outcome' = [outcome EXCEPT !.errors = n]
                         \/ \E b \in BOOLEAN : outcome' = [outcome EXCEPT !.failed = b]
    BY <1>17, <1>y DEF OutcomeRecord, RunStopped, StopRun, StopGroup,
        GroupQuiet, GroupUnproved
  <2>2. outcome'.verdict = outcome.verdict
    BY <2>1, <1>y DEF OutcomeRecord
  <2>3. QED BY <2>1, <2>2, <1>x
<1>18. CASE Judge
  <2>1. /\ pc' = "done"
        /\ outcome' = [outcome EXCEPT !.verdict = IF outcome.failed \/ outcome.errors > 0 THEN "FAIL" ELSE "PASS"]
    BY <1>18 DEF Judge, Verdict, Move
  <2>2. CASE outcome.failed \/ outcome.errors > 0
    <3>1. outcome' = [outcome EXCEPT !.verdict = "FAIL"]
      BY <2>1, <2>2
    <3>2. outcome'.verdict = "FAIL"
      BY <3>1, <1>y DEF OutcomeRecord
    <3>3. QED BY <2>1, <3>2 DEF VerdictInv
  <2>3. CASE ~(outcome.failed \/ outcome.errors > 0)
    <3>1. outcome' = [outcome EXCEPT !.verdict = "PASS"]
      BY <2>1, <2>3
    <3>2. outcome'.verdict = "PASS" /\ outcome'.failed = outcome.failed /\ outcome'.errors = outcome.errors
      BY <3>1, <1>y, OutcomeSet
    <3>3. outcome.errors = 0 /\ ~outcome.failed
      BY <2>3, <1>y DEF OutcomeRecord
    <3>4. QED BY <2>1, <3>2, <3>3 DEF VerdictInv
  <2>4. QED BY <2>2, <2>3
<1>19. CASE GiveUp
  <2>1. pc # "done" /\ \/ outcome' = outcome
                         \/ \E n \in Nat : outcome' = [outcome EXCEPT !.errors = n]
                         \/ \E b \in BOOLEAN : outcome' = [outcome EXCEPT !.failed = b]
    BY <1>19, <1>y DEF OutcomeRecord, GiveUp, Stage
  <2>2. outcome'.verdict = outcome.verdict
    BY <2>1, <1>y DEF OutcomeRecord
  <2>3. QED BY <2>1, <2>2, <1>x
<1>20. CASE ApprovalsFail \/ ClosePeer
  <2>1. UNCHANGED <<pc, outcome>>
    BY <1>20, Zenon DEF ApprovalsFail, BeginClose, driverUnchanged,
        driverVars, groupVars, worldVars, ClosePeer, PeerClose,
        DrainTimesOut, Drained, Shut, Joined
  <2>2. QED BY <2>1, <1>0
<1>21. CASE AgentsAct
  BY <1>21, AgentsFrame, <1>0 DEF AgentsLeave
<1>22. CASE PeerMoves \/ PeerWorks \/ PeerBreaks
  BY <1>22, PeerFrame, <1>0 DEF PeerLeaves
<1>23. CASE HostServes \/ HostObeys \/ HostCrashes \/ HostExits \/ RunStep
  BY <1>23, HostFrame, <1>0 DEF HostLeaves
<1>24. QED BY <1>1, <1>2, <1>3, <1>4, <1>5, <1>6, <1>7, <1>8, <1>9, <1>10, <1>11, <1>12, <1>13,
    <1>14, <1>15, <1>16, <1>17, <1>18, <1>19, <1>20, <1>21, <1>22, <1>23 DEF Next,
    World, Driver

TaskInv ==
  /\ ExecutionInv /\ DriverInv /\ WorkerInv /\ RootInv /\ ReportsInv /\ ApprovedInv
  /\ PeerInv /\ SoundInv /\ ClosedInv /\ VerdictInv

(* The invariant holds at the start.                                        *)
LEMMA TaskStarts == Init => TaskInv
<1> SUFFICES ASSUME Init PROVE TaskInv
  OBVIOUS
<1>1. ExecutionInv
  BY DEF Init, GroupInit, ExecutionInv, GroupTypeOK, LeaderState, Living,
      Code
<1>2. /\ pc = "prepare" /\ known = [root |-> FALSE, worker |-> FALSE]
      /\ host = [g \in {1} |-> [state |-> "none", stamp |-> FALSE, exited |-> FALSE,
                                signal |-> "none", end |-> "none"]]
      /\ outcome = [failed |-> FALSE, unsafe |-> FALSE, errors |-> 0, verdict |-> "none"]
  BY DEF Init, DriverInit
<1>3. DriverInv
  BY <1>2 DEF DriverInv, Past, Asking, HostRecord, HostState, OutcomeRecord
<1>4. SoundInv /\ ClosedInv /\ VerdictInv
  BY <1>2 DEF SoundInv, Finishes, ClosedInv, Sweeps, Swept, VerdictInv
<1>5. root = << >> /\ worker = << >> /\ ev = [root |-> << >>, worker |-> << >>]
  BY DEF Init, Unread
<1>6. << >> \in Seq(Word) /\ DOMAIN << >> = {}
  OBVIOUS
<1>7. WorkerInv /\ RootInv
  BY <1>5, <1>6 DEF WorkerInv, RootInv, Begins, About
<1>8. ApprovedInv
  BY <1>5, <1>6 DEF ApprovedInv, AcceptedUpon
<1>9. ReportsInv
  <2>1. /\ report = [r \in Reports |-> NoReport] /\ drawn = [r \in Reports |-> "none"]
        /\ taken = [r \in Reports |-> "none"]
    BY DEF Init
  <2>2. QED BY <2>1 DEF ReportsInv, NoReport
<1>10. PeerInv
  <2>1. PeerInit
    BY DEF Init
  <2>2. << >> \in Seq(Events) /\ << >> \in Seq(Frame) /\ << >> \in Seq(Events \X Value)
    OBVIOUS
  <2>3. PeerTypeOK
    BY <2>1, <2>2 DEF PeerInit, PeerTypeOK, Peer
  <2>4. Linked /\ ChainInv /\ WireInv /\ ShutInv
    BY <2>1, <1>6 DEF PeerInit, Linked, ChainInv, WireInv, ShutInv, CloseIsFinal
  <2>5. QED BY <2>3, <2>4 DEF PeerInv
<1>11. QED BY <1>1, <1>3, <1>4, <1>7, <1>8, <1>9, <1>10 DEF TaskInv

(* Every step keeps the invariant.                                          *)
LEMMA TaskGoes == TaskInv /\ [Next]_vars => TaskInv'
<1> SUFFICES ASSUME TaskInv, [Next]_vars PROVE TaskInv'
  OBVIOUS
<1>1. CASE Next
  <2>1. ExecutionInv' /\ DriverInv' /\ WorkerInv'
    BY <1>1, ExecutionStep, DriverStep, WorkerStep DEF TaskInv
  <2>2. RootInv' /\ ReportsInv' /\ ApprovedInv' /\ PeerInv'
    BY <1>1, RootStep, ReportsStep, ApprovedStep, PeerKept DEF TaskInv, PeerInv
  <2>3. SoundInv' /\ ClosedInv' /\ VerdictInv'
    BY <1>1, SoundStep, ClosedStep, VerdictStep DEF TaskInv
  <2>4. QED BY <2>1, <2>2, <2>3 DEF TaskInv
<1>2. CASE UNCHANGED vars
  <2>1. UNCHANGED <<leader, solver, signal, wrapperPid, exitFile, pc, host, owned, outcome>>
    BY <1>2 DEF vars, groupVars, driverVars
  <2>2. UNCHANGED <<peer, socket, frames, clientId, failure, timedOut, aborted, seen, cancelled,
                    chain,
                    link, wire, answer, posts>>
    BY <1>2 DEF vars, peerVars
  <2>3. UNCHANGED <<root, worker, child, job, extra, report, card, drawn, taken, known, ev>>
    BY <1>2 DEF vars, worldVars
  <2>4. ExecutionInv' /\ DriverInv'
    BY <2>1, <2>3 DEF TaskInv, ExecutionInv, DriverInv, GroupTypeOK, Alive
  <2>5. WorkerInv' /\ RootInv'
    BY <2>1, <2>3 DEF TaskInv, WorkerInv, RootInv, Begins, About
  <2>6. ReportsInv' /\ ApprovedInv'
    BY <2>3 DEF TaskInv, ReportsInv, ApprovedInv
  <2>7. PeerTypeOK' /\ Linked' /\ ChainInv'
    BY <2>2 DEF TaskInv, PeerInv, PeerTypeOK, Linked, ChainInv
  <2>8. WireInv' /\ ShutInv'
    BY <2>2 DEF TaskInv, PeerInv, WireInv, ShutInv, CloseIsFinal
  <2>9. SoundInv' /\ ClosedInv' /\ VerdictInv'
    BY <2>1, <2>3 DEF TaskInv, SoundInv, Chained, ClosedInv, VerdictInv, ErrorFree, Executing
  <2>10. QED BY <2>4, <2>5, <2>6, <2>7, <2>8, <2>9 DEF TaskInv, PeerInv
<1>3. QED BY <1>1, <1>2

(* What the first-task gate says is so: a PASS means one run that ended well and was *)
(* collected before the report, an approval, and nothing left behind.      *)
THEOREM FirstTaskTrue == Spec => []VerdictTrue
<1>1. Spec => []TaskInv
  BY TaskStarts, TaskGoes, PTL DEF Spec
<1>2. TaskInv => VerdictTrue
  <2> SUFFICES ASSUME TaskInv PROVE VerdictTrue
    OBVIOUS
  <2>1. ASSUME pc = "done", outcome.errors = 0
        PROVE  ~Alive(1) /\ ~Executing /\ extra = "none" /\ (known.root => child # "two")
    BY <2>1 DEF TaskInv, DriverInv, Past, ClosedInv, Sweeps, Swept, ErrorFree
  <2>2. CleanVerdict
    BY <2>1 DEF CleanVerdict
  <2>3. ASSUME outcome.verdict = "PASS"
        PROVE  /\ \E r \in Reports : taken[r] = "approved" /\ drawn[r] = "collected"
               /\ exitFile = "zero" /\ ~Executing /\ extra = "none" /\ child = "known"
    <3>1. pc = "done" /\ ~outcome.failed /\ outcome.errors = 0
      BY <2>3 DEF TaskInv, VerdictInv
    <3>2. Chained
      BY <3>1 DEF TaskInv, SoundInv, Finishes
    <3>3. ~Executing /\ extra = "none" /\ (known.root => child # "two")
      BY <3>1, <2>1
    <3>4. QED BY <3>2, <3>3 DEF Chained
  <2>4. QED BY <2>2, <2>3 DEF VerdictTrue, PassMeansChain
<1>3. QED BY <1>1, <1>2, PTL

(* No answer is posted that is no longer wanted, none twice, and a close that returned leaves *)
(* none under way.                                                         *)
THEOREM AnswersAreOrderly == Spec => AnswersOrderly
<1>1. Spec => []TaskInv
  BY TaskStarts, TaskGoes, PTL DEF Spec
<1>2. TaskInv => CloseIsFinal
  BY DEF TaskInv, PeerInv, ShutInv
<1>3. TaskInv /\ [Next]_vars =>
        [posts' # posts =>
           LET e == Last(posts')[1] IN
             /\ e \notin cancelled /\ ~Closing /\ ~failure
             /\ \A i \in DOMAIN posts : posts[i][1] # e]_<<peerVars, driverVars>>
  <2> SUFFICES ASSUME TaskInv, [Next]_vars, posts' # posts
               PROVE  LET e == Last(posts')[1] IN
                        /\ e \notin cancelled /\ ~Closing /\ ~failure
                        /\ \A i \in DOMAIN posts : posts[i][1] # e
    OBVIOUS
  <2>1. Next
    BY DEF vars, peerVars
  <2>2. Posts
    BY <2>1, PeerActs DEF TaskInv, PeerInv, PeerStep, Stands, Arrives, Taken, Drops, Considers
  <2>3. PICK v \in Value : posts' = Append(posts, <<Head(chain), v>>)
    BY <2>2 DEF Posts
  <2>4. link = "deciding" /\ chain # << >> /\ Head(chain) \notin cancelled /\ ~Closing /\ ~failure
    BY <2>2 DEF Posts
  <2>5. posts \in Seq(Events \X Value) /\ chain \in Seq(Events)
    BY DEF TaskInv, PeerInv, PeerTypeOK
  <2>6. Head(chain) = chain[1] /\ 1 \in DOMAIN chain /\ Head(chain) \in Events
    BY <2>4, <2>5, Dropped
  <2> DEFINE p == <<Head(chain), v>>
  <2>7. p \in Events \X Value /\ p[1] = Head(chain)
    BY <2>6
  <2> HIDE DEF p
  <2>8. Append(posts, p)[Len(Append(posts, p))] = p
    BY <2>5, <2>7, LogGrows
  <2>9. Last(posts')[1] = Head(chain)
    BY <2>3, <2>7, <2>8 DEF Last, p
  <2>10. \A i \in DOMAIN posts : posts[i][1] # Head(chain)
    BY <2>4, <2>6 DEF TaskInv, PeerInv, ChainInv
  <2>11. QED BY <2>4, <2>9, <2>10
<1>4. QED BY <1>1, <1>2, <1>3, PTL DEF Spec, AnswersOrderly, AnswersInTime

=============================================================================
