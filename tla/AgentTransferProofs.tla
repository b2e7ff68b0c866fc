------------------------- MODULE AgentTransferProofs -------------------------
(***************************************************************************)
(* Safety of the handovers for any number of agents, processors, transfers *)
(* and faults.                                                             *)
(***************************************************************************)
EXTENDS AgentTransfer, TLAPS

\* What a processor has written and not committed concerns an active transfer.
Written ==
    \A p \in Processors : \A t \in Transfers : Wrote(p, t) =>
        step[p] \in {"escalate", "raise", "commit"} /\ status[t] = "active"

\* A level it raises is the one it selected.
Raising ==
    \A p \in Processors : \A t \in Transfers : <<t, "raise">> \in writes[p] =>
        /\ step[p] = "commit"
        /\ seen[p][1] = t /\ seen[p][2] = level[t]
        /\ level[t] < 2

\* No two processors have written one transfer.
Apart ==
    \A p, q \in Processors : \A t \in Transfers : Wrote(p, t) /\ Wrote(q, t) => p = q

\* A processor has committed, and has a notice to send.
Committed(p) == step[p] \in {"notify", "send"}

\* A processor that is about to write has selected what to write, and one that
\* is about to tell has a notice.
Selected ==
    \A p \in Processors :
        /\ step[p] \in {"close", "raise"} => seen[p][1] \in Transfers
        /\ step[p] = "raise" => seen[p][2] < 2
        /\ Committed(p) => notice[p][2] # "none"

\* A processor that has a notice for the customer is the only one to have it;
\* the customer was not told, and the transfer is closed or warned of, or will
\* be by the same commit.
Noticed ==
    \A p \in Processors : notice[p][2] # "none" =>
        LET t == notice[p][1]
            kind == notice[p][2]
        IN
        /\ t \in Transfers
        /\ step[p] \in {"escalate", "raise", "commit", "notify", "send"}
        /\ told[t][kind] = 0
        /\ \A q \in Processors : notice[q][1] = t /\ notice[q][2] = kind => q = p
        /\ kind = "closed" => IF Committed(p) THEN status[t] = "expired"
                              ELSE <<t, "expire">> \in writes[p]
        /\ kind = "warned" => /\ step[p] = "commit" \/ Committed(p)
                              /\ IF Committed(p) THEN level[t] > 0
                                 ELSE <<t, "raise">> \in writes[p]

\* Nobody is told of what has not happened.
Untold ==
    \A t \in Transfers :
        /\ status[t] \in {"absent", "active"} => told[t]["closed"] = 0
        /\ level[t] = 0 => told[t]["warned"] = 0

\* The inductive invariant.
Inv ==
    /\ TypeOK
    /\ Written
    /\ Raising
    /\ Apart
    /\ Selected
    /\ Noticed
    /\ Untold
    /\ ToldOnce

\* The fault bound is a number, and nobody is not a transfer.
LEMMA Constants == MaxFaults \in Nat /\ Nobody \notin Transfers /\ Nobody \notin Agents

<1>. QED
  BY TransferAssumption DEF Transfers

-----------------------------------------------------------------------------

\* Nothing that others see has changed.
Unseen == UNCHANGED <<rows, deleted, returning, told>> /\ faults' \in 0..MaxFaults

\* A processor that writes to rows nobody else has locked, and moves on.
LEMMA PassWrites ==
  ASSUME Inv, NEW p \in Processors,
         step[p] \in {"idle", "close", "escalate", "raise"},
         NEW to \in {"close", "escalate", "raise", "commit"}, Goto(p, to),
         NEW added \in SUBSET (Transfers \X Changes), Write(p, added),
         \A t \in Transfers : \A change \in Changes :
            <<t, change>> \in added => t \in Active /\ t \notin Locked(p),
         to = "close" => step[p] = "idle" /\ \A x : x \notin added,
         NEW s \in (Transfers \cup {Nobody}) \X (0..2), seen' = [seen EXCEPT ![p] = s],
         to \in {"close", "raise"} => s[1] \in Transfers,
         to = "raise" => s[2] < 2,
         fence' \in [Processors -> BOOLEAN],
         notice' \in [Processors -> (Transfers \cup {Nobody}) \X {"none", "closed", "warned"}],
         \A q \in Processors \ {p} : notice'[q] = notice[q],
         Unseen
  PROVE  TypeOK' /\ Written' /\ Apart' /\ Selected' /\ Untold' /\ ToldOnce'

<1>1. /\ UNCHANGED <<status, agent, level, past, deleted, returning, told>>
      /\ faults' \in 0..MaxFaults
  BY DEF Unseen, rows
<1>2. step' = [step EXCEPT ![p] = to]
  BY DEF Goto
<1>3. writes' = [writes EXCEPT ![p] = @ \cup added]
  BY DEF Write
<1>4. TypeOK'
  <2>1. writes' \in [Processors -> SUBSET (Transfers \X Changes)]
    BY <1>3 DEF Inv, TypeOK
  <2>2. seen' \in [Processors -> (Transfers \cup {Nobody}) \X (0..2)]
    BY DEF Inv, TypeOK
  <2>3. step' \in [Processors -> {"idle", "close", "escalate", "raise", "commit", "notify", "send"}]
    BY <1>2 DEF Inv, TypeOK
  <2>. QED
    BY <1>1, <2>1, <2>2, <2>3 DEF Inv, TypeOK
<1>5. \A q \in Processors : \A t \in Transfers :
        Wrote(q, t)' => Wrote(q, t) \/ (q = p /\ t \in Active /\ t \notin Locked(p) /\ to # "close")
  BY <1>3 DEF Inv, TypeOK, Wrote
<1>6. Written'
  <2>1. \A t \in Transfers : Wrote(p, t) => step[p] \in {"escalate", "raise", "commit"}
    BY DEF Inv, Written
  <2>. QED
    BY <1>1, <1>2, <1>5, <2>1 DEF Inv, TypeOK, Written, Active
<1>7. Apart'
  BY <1>5 DEF Inv, Apart, Locked
<1>8. Selected'
  BY <1>2 DEF Inv, TypeOK, Selected, Committed
<1>9. Untold' /\ ToldOnce'
  BY <1>1 DEF Inv, Untold, ToldOnce
<1>. QED
  BY <1>4, <1>6, <1>7, <1>8, <1>9

\* It raises no level before it escalates.
LEMMA PassRaisesNothing ==
  ASSUME Inv, NEW p \in Processors, step[p] # "commit",
         NEW to, Goto(p, to),
         NEW added, Write(p, added), \A t \in Transfers : <<t, "raise">> \notin added,
         NEW s, seen' = [seen EXCEPT ![p] = s],
         Unseen
  PROVE  Raising'

<1>1. UNCHANGED level
  BY DEF Unseen, rows
<1>2. ASSUME NEW q \in Processors, NEW t \in Transfers, <<t, "raise">> \in writes'[q]
      PROVE  q # p /\ <<t, "raise">> \in writes[q]
  BY <1>2 DEF Inv, TypeOK, Raising, Write
<1>. QED
  BY <1>1, <1>2 DEF Inv, TypeOK, Raising, Goto

\* What it will tell stays true while it writes more.
LEMMA PassKeepsNotices ==
  ASSUME Inv, NEW p \in Processors,
         step[p] \in {"idle", "close", "escalate", "raise"},
         NEW to \in {"close", "escalate", "raise", "commit"}, Goto(p, to),
         to = "close" => step[p] = "idle",
         NEW added, Write(p, added),
         UNCHANGED notice, Unseen
  PROVE  Noticed'

<1>1. UNCHANGED <<status, level, told, notice>>
  BY DEF Unseen, rows
<1>2. \A q \in Processors : step'[q] = IF q = p THEN to ELSE step[q]
  BY DEF Inv, TypeOK, Goto
<1>3. \A q \in Processors : \A w : w \in writes[q] => w \in writes'[q]
  BY DEF Inv, TypeOK, Write
<1>4. ASSUME NEW q \in Processors, notice[q][2] # "none"
      PROVE  IF q = p
             THEN notice[q][2] = "closed" /\ step[q] \in {"escalate", "raise"} /\ to # "close"
             ELSE step'[q] = step[q]
  <2>1. notice[q][2] \in {"closed", "warned"}
    BY <1>4 DEF Inv, TypeOK
  <2>2. /\ step[q] \in {"escalate", "raise", "commit", "notify", "send"}
        /\ notice[q][2] = "warned" => step[q] \in {"commit", "notify", "send"}
    BY <1>4 DEF Inv, Noticed, Committed
  <2>. QED
    BY <1>2, <2>1, <2>2
<1>. QED
  BY <1>1, <1>2, <1>3, <1>4 DEF Inv, Noticed, Committed

\* It may move on without writing.
LEMMA PassMoves ==
  ASSUME Inv, NEW p \in Processors,
         step[p] \in {"idle", "close", "escalate", "raise"},
         NEW to \in {"close", "escalate", "raise", "commit"}, Goto(p, to),
         to = "close" => step[p] = "idle",
         NEW s \in (Transfers \cup {Nobody}) \X (0..2), seen' = [seen EXCEPT ![p] = s],
         to \in {"close", "raise"} => s[1] \in Transfers,
         to = "raise" => s[2] < 2,
         UNCHANGED <<writes, fence, notice>>, Unseen
  PROVE  Inv'

<1>. DEFINE added == {}
<1>1. added \in SUBSET (Transfers \X Changes) /\ \A x : x \notin added
  OBVIOUS
<1>2. Write(p, added)
  BY DEF Inv, TypeOK, Write
<1>3. /\ fence' \in [Processors -> BOOLEAN]
      /\ notice' \in [Processors -> (Transfers \cup {Nobody}) \X {"none", "closed", "warned"}]
  BY DEF Inv, TypeOK
<1>. HIDE DEF added
<1>4. TypeOK' /\ Written' /\ Apart' /\ Selected' /\ Untold' /\ ToldOnce'
  BY <1>1, <1>2, <1>3, PassWrites
<1>5. Raising' /\ Noticed'
  <2>1. step[p] # "commit"
    OBVIOUS
  <2>. QED
    BY <1>1, <1>2, <2>1, PassRaisesNothing, PassKeepsNotices
<1>. QED
  BY <1>4, <1>5 DEF Inv

\* It may move a deadline.
LEMMA PassExtends ==
  ASSUME Inv, NEW p \in Processors,
         step[p] \in {"idle", "close", "escalate", "raise"},
         NEW to \in {"escalate", "commit"}, Goto(p, to),
         NEW t \in Active, t \notin Locked(p),
         NEW change \in {"extend expiry", "extend escalation"}, Write(p, {<<t, change>>}),
         UNCHANGED <<seen, fence, notice>>, Unseen
  PROVE  Inv'

<1>. DEFINE added == {<<t, change>>}
            s == seen[p]
<1>1. added \in SUBSET (Transfers \X Changes)
  <2>1. <<t, change>> \in Transfers \X Changes
    BY DEF Active, Changes
  <2>. QED
    BY <2>1
<1>2. /\ \A u \in Transfers : \A c \in Changes :
            <<u, c>> \in added => u \in Active /\ u \notin Locked(p)
      /\ \A u \in Transfers : <<u, "raise">> \notin added
  OBVIOUS
<1>3. Write(p, added) /\ seen' = [seen EXCEPT ![p] = s]
      /\ s \in (Transfers \cup {Nobody}) \X (0..2)
  BY DEF Inv, TypeOK
<1>4. /\ fence' \in [Processors -> BOOLEAN]
      /\ notice' \in [Processors -> (Transfers \cup {Nobody}) \X {"none", "closed", "warned"}]
  BY DEF Inv, TypeOK
<1>. HIDE DEF added, s
<1>5. TypeOK' /\ Written' /\ Apart' /\ Selected' /\ Untold' /\ ToldOnce'
  BY <1>1, <1>2, <1>3, <1>4, PassWrites
<1>6. Raising' /\ Noticed'
  <2>1. step[p] # "commit"
    OBVIOUS
  <2>. QED
    BY <1>2, <1>3, <2>1, PassRaisesNothing, PassKeepsNotices
<1>. QED
  BY <1>5, <1>6 DEF Inv

\* A pass begins with the transfers of deleted contacts, or with one whose time
\* is up.
LEMMA KeptByBegin ==
  ASSUME Inv, NEW p \in Processors, Begin(p)
  PROVE  Inv'

<1>. DEFINE s == seen[p]
<1>1. /\ step[p] = "idle" /\ UNCHANGED notice /\ Unseen
      /\ s \in (Transfers \cup {Nobody}) \X (0..2)
      /\ seen = [seen EXCEPT ![p] = s]
  BY DEF Inv, TypeOK, Begin, Uncommitted, Unseen
<1>2. notice' \in [Processors -> (Transfers \cup {Nobody}) \X {"none", "closed", "warned"}]
  BY <1>1 DEF Inv, TypeOK
<1>3. CASE CloseOrphans(p)
  <2>. DEFINE added == {<<t, "expire">> : t \in Orphans}
  <2>1. added \in SUBSET (Transfers \X Changes)
    <3>1. \A t \in Orphans : <<t, "expire">> \in Transfers \X Changes
      BY DEF Orphans, Active, Changes
    <3>. QED
      BY <3>1
  <2>2. \A t \in Transfers : \A change \in Changes :
          <<t, change>> \in added => t \in Active /\ t \notin Locked(p) /\ change = "expire"
    BY <1>3 DEF CloseOrphans, Orphans
  <2>3. Goto(p, "escalate") /\ Write(p, added) /\ seen' = [seen EXCEPT ![p] = s]
    BY <1>1, <1>3 DEF CloseOrphans
  <2>4. fence' \in [Processors -> BOOLEAN]
    BY <1>3 DEF Inv, TypeOK, CloseOrphans
  <2>5. \A t \in Transfers : <<t, "raise">> \notin added
    BY <2>2 DEF Changes
  <2>. HIDE DEF added, s
  <2>6. TypeOK' /\ Written' /\ Apart' /\ Selected' /\ Untold' /\ ToldOnce'
    BY <1>1, <1>2, <2>1, <2>2, <2>3, <2>4, PassWrites
  <2>7. Raising' /\ Noticed'
    BY <1>1, <2>3, <2>5, PassRaisesNothing, PassKeepsNotices
  <2>. QED
    BY <2>6, <2>7 DEF Inv
<1>4. CASE JudgeExpired(p)
  <2>1. PICK t \in Active : \/ /\ t \notin Locked(p) /\ Write(p, {<<t, "extend expiry">>})
                               /\ Goto(p, "escalate") /\ UNCHANGED <<seen, fence>>
                            \/ /\ seen' = [seen EXCEPT ![p] = <<t, level[t]>>]
                               /\ Goto(p, "close") /\ UNCHANGED <<writes, fence>>
    BY <1>4 DEF JudgeExpired
  <2>2. <<t, level[t]>> \in (Transfers \cup {Nobody}) \X (0..2) /\ t \in Transfers
    BY DEF Inv, TypeOK, Active
  <2>. QED
    BY <1>1, <2>1, <2>2, PassExtends, PassMoves
<1>5. CASE NoneExpired(p)
  <2>1. Goto(p, "escalate") /\ seen' = [seen EXCEPT ![p] = s] /\ UNCHANGED <<writes, fence>>
    BY <1>1, <1>5 DEF NoneExpired
  <2>. HIDE DEF s
  <2>. QED
    BY <1>1, <2>1, PassMoves
<1>. QED
  BY <1>3, <1>4, <1>5 DEF Begin

\* The one step by which a processor comes to tell of a closure: the transfer
\* was active and nobody else had written it, so nobody else has that notice.
LEMMA KeptByCloseExpired ==
  ASSUME Inv, NEW p \in Processors, CloseExpired(p)
  PROVE  Inv'

<1>. DEFINE t == seen[p][1]
            s == seen[p]
            added == {<<t, "expire">>}
<1>1. /\ step[p] = "close" /\ t \in Transfers /\ t \notin Locked(p)
      /\ Goto(p, "escalate") /\ UNCHANGED seen /\ Unseen
      /\ seen' = [seen EXCEPT ![p] = s]
      /\ s \in (Transfers \cup {Nobody}) \X (0..2)
  BY DEF Inv, TypeOK, CloseExpired, Selected, Uncommitted, Unseen, Committed
<1>2. CASE UNCHANGED <<writes, fence, notice>>
  <2>. HIDE DEF s
  <2>. QED
    BY <1>1, <1>2, PassMoves
<1>3. CASE /\ t \in Active /\ Write(p, added)
           /\ fence' = [fence EXCEPT ![p] = TRUE]
           /\ notice' = [notice EXCEPT ![p] = <<t, "closed">>]
  <2>1. added \in SUBSET (Transfers \X Changes)
    <3>1. <<t, "expire">> \in Transfers \X Changes
      BY <1>1 DEF Changes
    <3>. QED
      BY <3>1
  <2>2. /\ \A u \in Transfers : \A c \in Changes :
              <<u, c>> \in added => u \in Active /\ u \notin Locked(p)
        /\ \A u \in Transfers : <<u, "raise">> \notin added
    BY <1>1, <1>3
  <2>3. /\ fence' \in [Processors -> BOOLEAN]
        /\ notice' \in [Processors -> (Transfers \cup {Nobody}) \X {"none", "closed", "warned"}]
        /\ \A q \in Processors \ {p} : notice'[q] = notice[q]
    BY <1>1, <1>3 DEF Inv, TypeOK
  <2>4. Noticed'
    <3>1. /\ status[t] = "active" /\ told[t]["closed"] = 0
          /\ UNCHANGED <<status, level, told>>
      BY <1>1, <1>3 DEF Inv, Untold, Active, Unseen, rows
    <3>2. \A q \in Processors \ {p} : ~Wrote(q, t)
      BY <1>1 DEF Locked
    <3>3. \A q \in Processors : notice[q][2] = "closed" /\ notice[q][1] = t => q = p
      BY <3>1, <3>2 DEF Inv, Noticed, Wrote, Changes, Committed
    <3>4. /\ \A q \in Processors \ {p} : step'[q] = step[q] /\ notice'[q] = notice[q]
                                         /\ writes'[q] = writes[q]
          /\ step'[p] = "escalate" /\ notice'[p][1] = t /\ notice'[p][2] = "closed"
          /\ <<t, "expire">> \in writes'[p]
      BY <1>1, <1>3 DEF Inv, TypeOK, Goto, Write
    <3>. HIDE DEF t
    <3>5. ASSUME NEW q \in Processors \ {p}, notice'[q][2] # "none"
          PROVE  ~(notice'[q][1] = t /\ notice'[q][2] = "closed")
      BY <3>3, <3>4
    <3>. QED
      BY <1>1, <3>1, <3>4, <3>5 DEF Inv, Noticed, Committed
  <2>. HIDE DEF added, s
  <2>5. TypeOK' /\ Written' /\ Apart' /\ Selected' /\ Untold' /\ ToldOnce'
    BY <1>1, <1>3, <2>1, <2>2, <2>3, PassWrites
  <2>6. Raising'
    BY <1>1, <1>3, <2>2, PassRaisesNothing
  <2>. QED
    BY <2>4, <2>5, <2>6 DEF Inv
<1>. QED
  BY <1>2, <1>3 DEF CloseExpired

\* Escalation selects or extends.
LEMMA KeptByJudgeWaiting ==
  ASSUME Inv, NEW p \in Processors, JudgeWaiting(p)
  PROVE  Inv'

<1>. DEFINE s == seen[p]
<1>1. /\ step[p] = "escalate" /\ UNCHANGED <<fence, notice>> /\ Unseen
      /\ s \in (Transfers \cup {Nobody}) \X (0..2)
      /\ seen = [seen EXCEPT ![p] = s]
  BY DEF Inv, TypeOK, JudgeWaiting, Uncommitted, Unseen
<1>2. CASE Goto(p, "commit") /\ UNCHANGED <<writes, seen>>
  <2>1. seen' = [seen EXCEPT ![p] = s]
    BY <1>1, <1>2
  <2>. HIDE DEF s
  <2>. QED
    BY <1>1, <1>2, <2>1, PassMoves
<1>3. ASSUME NEW t \in Active, level[t] < 2,
             \/ /\ t \notin Locked(p) /\ Write(p, {<<t, "extend escalation">>})
                /\ Goto(p, "commit") /\ UNCHANGED seen
             \/ /\ seen' = [seen EXCEPT ![p] = <<t, level[t]>>]
                /\ Goto(p, "raise") /\ UNCHANGED writes
      PROVE  Inv'
  <2>1. <<t, level[t]>> \in (Transfers \cup {Nobody}) \X (0..2) /\ t \in Transfers
    BY DEF Inv, TypeOK, Active
  <2>. QED
    BY <1>1, <1>3, <2>1, PassExtends, PassMoves
<1>. QED
  BY <1>2, <1>3 DEF JudgeWaiting, Open

\* The one step by which a processor comes to warn: the transfer is still at
\* level 0, so nobody was warned, and nobody else is about to raise it.
LEMMA KeptByEscalate ==
  ASSUME Inv, NEW p \in Processors, Escalate(p)
  PROVE  Inv'

<1>. DEFINE t == seen[p][1]
            s == seen[p]
            added == {<<t, "raise">>}
<1>1. /\ step[p] = "raise" /\ t \in Transfers /\ s[2] < 2 /\ t \notin Locked(p)
      /\ Goto(p, "commit") /\ UNCHANGED <<seen, fence>> /\ Unseen
      /\ seen' = [seen EXCEPT ![p] = s]
      /\ s \in (Transfers \cup {Nobody}) \X (0..2)
  BY DEF Inv, TypeOK, Escalate, Selected, Uncommitted, Unseen, Committed
<1>2. CASE UNCHANGED <<writes, notice>>
  <2>. HIDE DEF s
  <2>. QED
    BY <1>1, <1>2, PassMoves
<1>3. CASE /\ t \in Active /\ level[t] = seen[p][2] /\ Write(p, added)
           /\ notice' = IF seen[p][2] = 0 THEN [notice EXCEPT ![p] = <<t, "warned">>] ELSE notice
  <2>1. added \in SUBSET (Transfers \X Changes)
    <3>1. <<t, "raise">> \in Transfers \X Changes
      BY <1>1 DEF Changes
    <3>. QED
      BY <3>1
  <2>2. \A u \in Transfers : \A c \in Changes :
          <<u, c>> \in added => u \in Active /\ u \notin Locked(p)
    BY <1>1, <1>3
  <2>3. /\ fence' \in [Processors -> BOOLEAN]
        /\ notice' \in [Processors -> (Transfers \cup {Nobody}) \X {"none", "closed", "warned"}]
        /\ \A q \in Processors \ {p} : notice'[q] = notice[q]
    BY <1>1, <1>3 DEF Inv, TypeOK
  <2>4. UNCHANGED <<status, level, told>>
    BY <1>1 DEF Unseen, rows
  <2>5. /\ \A q \in Processors \ {p} : step'[q] = step[q] /\ writes'[q] = writes[q]
        /\ step'[p] = "commit" /\ writes'[p] = writes[p] \cup added
    BY <1>1, <1>3 DEF Inv, TypeOK, Goto, Write
  <2>6. Raising'
    <3>1. \A u \in Transfers : <<u, "raise">> \in writes'[p] => u = t
      BY <1>1, <2>5 DEF Inv, Raising
    <3>. QED
      BY <1>1, <1>3, <2>4, <2>5, <3>1 DEF Inv, Raising
  <2>7. ASSUME seen[p][2] = 0 PROVE Noticed'
    <3>1. /\ told[t]["warned"] = 0 /\ level[t] = 0
          /\ \A q \in Processors \ {p} : notice'[q] = notice[q]
          /\ notice'[p][1] = t /\ notice'[p][2] = "warned"
      BY <1>1, <1>3, <2>7 DEF Inv, TypeOK, Untold
    <3>2. \A q \in Processors \ {p} : <<t, "raise">> \notin writes[q]
      BY <1>1 DEF Locked, Wrote, Changes
    <3>3. ASSUME NEW q \in Processors, notice[q][2] = "warned", notice[q][1] = t
          PROVE  q = p
      <4>1. IF Committed(q) THEN level[t] > 0 ELSE <<t, "raise">> \in writes[q]
        BY <3>3 DEF Inv, Noticed, Committed
      <4>. QED
        BY <3>1, <3>2, <4>1
    <3>4. <<t, "raise">> \in writes'[p]
      BY <2>5
    <3>. HIDE DEF t, added
    <3>5. ASSUME NEW q \in Processors \ {p}, notice'[q][2] # "none"
          PROVE  ~(notice'[q][1] = t /\ notice'[q][2] = "warned")
      BY <3>1, <3>3
    <3>. QED
      BY <1>1, <2>4, <2>5, <3>1, <3>4, <3>5 DEF Inv, Noticed, Committed
  <2>8. ASSUME seen[p][2] # 0 PROVE Noticed'
    <3>1. UNCHANGED notice
      BY <1>3, <2>8
    <3>. HIDE DEF added
    <3>. QED
      BY <1>1, <1>3, <3>1, PassKeepsNotices
  <2>. HIDE DEF added, s
  <2>9. TypeOK' /\ Written' /\ Apart' /\ Selected' /\ Untold' /\ ToldOnce'
    BY <1>1, <1>3, <2>1, <2>2, <2>3, PassWrites
  <2>. QED
    BY <2>6, <2>7, <2>8, <2>9 DEF Inv
<1>. QED
  BY <1>2, <1>3 DEF Escalate, Unraised

\* The customer is told what the notice says, for the first time, and it has
\* happened.
ToldNow(p) ==
    LET t == notice[p][1]
        kind == notice[p][2]
    IN /\ t \in Transfers /\ kind \in {"closed", "warned"}
       /\ told[t][kind] = 0 /\ told' = [told EXCEPT ![t][kind] = 1]
       /\ kind = "closed" => status[t] = "expired"
       /\ kind = "warned" => level[t] > 0

LEMMA ToldMoves ==
  ASSUME Inv, NEW p \in Processors, Tell(p)
  PROVE  /\ ToldNow(p)
         /\ told' \in [Transfers -> [{"closed", "warned"} -> Nat]]

<1>. DEFINE t == notice[p][1]
            kind == notice[p][2]
<1>1. Committed(p) /\ told' = [told EXCEPT ![t][kind] = told[t][kind] + 1]
  BY DEF Tell, Committed
<1>2. kind \in {"closed", "warned"}
  BY <1>1 DEF Inv, TypeOK, Selected, Committed
<1>3. /\ t \in Transfers /\ told[t][kind] = 0
      /\ kind = "closed" => status[t] = "expired"
      /\ kind = "warned" => level[t] > 0
  BY <1>1, <1>2 DEF Inv, Noticed, Committed
<1>4. told' = [told EXCEPT ![t][kind] = 1]
  BY <1>1, <1>3
<1>5. ToldNow(p)
  BY <1>2, <1>3, <1>4 DEF ToldNow
<1>. HIDE DEF t, kind
<1>6. told' \in [Transfers -> [{"closed", "warned"} -> Nat]]
  BY <1>2, <1>3, <1>4 DEF Inv, TypeOK
<1>. QED
  BY <1>5, <1>6

\* What becomes visible at a commit; the rows that others have written stay as
\* they are.
LEMMA CommitMoves ==
  ASSUME Inv, NEW p \in Processors, Commit(p)
  PROVE  /\ step[p] = "commit" /\ UNCHANGED <<agent, deleted, returning, notice, told, faults>>
         /\ \A t \in Transfers :
              /\ status'[t] = IF <<t, "expire">> \in writes[p] THEN "expired" ELSE status[t]
              /\ <<t, "raise">> \in writes[p] => level'[t] = level[t] + 1 /\ level[t] < 2
              /\ <<t, "raise">> \notin writes[p] => level'[t] = level[t]
         /\ \A q \in Processors \ {p} :
              /\ step'[q] = step[q] /\ writes'[q] = writes[q] /\ seen'[q] = seen[q]
              /\ \A t \in Transfers : Wrote(q, t) =>
                   status'[t] = status[t] /\ level'[t] = level[t]
         /\ writes'[p] = {}
         /\ step'[p] = IF notice[p][2] = "none" THEN "idle" ELSE "notify"

<1>1. step[p] = "commit" /\ UNCHANGED <<agent, deleted, returning, notice, told, faults>>
  BY DEF Commit
<1>2. \A t \in Transfers :
        status'[t] = IF <<t, "expire">> \in writes[p] THEN "expired" ELSE status[t]
  BY DEF Commit
<1>3. \A t \in Transfers :
        level'[t] = IF <<t, "raise">> \in writes[p] THEN seen[p][2] + 1 ELSE level[t]
  BY DEF Commit
<1>4. \A t \in Transfers : <<t, "raise">> \in writes[p] => seen[p][2] = level[t] /\ level[t] < 2
  BY DEF Inv, Raising
<1>5. \A q \in Processors \ {p} :
        step'[q] = step[q] /\ writes'[q] = writes[q] /\ seen'[q] = seen[q]
  BY DEF Inv, TypeOK, Commit, Goto
<1>6. /\ writes'[p] = {}
      /\ step'[p] = IF notice[p][2] = "none" THEN "idle" ELSE "notify"
  BY DEF Inv, TypeOK, Commit, Goto
<1>7. ASSUME NEW q \in Processors \ {p}, NEW t \in Transfers, Wrote(q, t)
      PROVE  status'[t] = status[t] /\ level'[t] = level[t]
  <2>1. ~Wrote(p, t)
    BY <1>7 DEF Inv, Apart
  <2>2. <<t, "expire">> \notin writes[p] /\ <<t, "raise">> \notin writes[p]
    BY <2>1 DEF Wrote, Changes
  <2>. QED
    BY <1>2, <1>3, <2>2
<1>. QED
  BY <1>1, <1>2, <1>3, <1>4, <1>5, <1>6, <1>7

LEMMA KeptByCreate ==
    ASSUME Inv, NEW t \in Transfers, NEW a \in Agents \cup {Nobody},
         Create(t, a)
  PROVE  Inv'

<1>1. TypeOK'
  BY DEF Inv, TypeOK, Create, Request, pass
<1>2. Written'
  BY DEF Inv, Create, Request, pass, Wrote, Written
<1>3. Raising'
  BY DEF Inv, Create, Request, pass, Raising
<1>4. Apart'
  BY DEF Inv, Create, Request, pass, Wrote, Apart
<1>5. Selected'
  BY DEF Inv, Create, Request, pass, Selected, Committed
<1>6. Noticed'
  BY DEF Inv, Create, Request, pass, Noticed, Committed
<1>7. Untold'
  BY DEF Inv, Create, Request, Untold
<1>8. ToldOnce'
  BY DEF Inv, Create, Request, ToldOnce
<1>. QED
  BY <1>1, <1>2, <1>3, <1>4, <1>5, <1>6, <1>7, <1>8 DEF Inv

LEMMA KeptByResume ==
  ASSUME Inv, NEW t \in Transfers, Resume(t)
  PROVE  Inv'

<1>1. TypeOK'
  BY DEF Inv, TypeOK, Resume, Request, pass
<1>2. Written'
  BY DEF Inv, TypeOK, Resume, Request, pass, RowFree, Wrote, Written
<1>3. Raising'
  BY DEF Inv, Resume, Request, pass, Raising
<1>4. Apart'
  BY DEF Inv, Resume, Request, pass, Wrote, Apart
<1>5. Selected'
  BY DEF Inv, Resume, Request, pass, Selected, Committed
<1>6. Noticed'
  BY DEF Inv, TypeOK, Resume, Request, pass, Active, Noticed, Committed
<1>7. Untold'
  BY DEF Inv, TypeOK, Resume, Request, Untold
<1>8. ToldOnce'
  BY DEF Inv, Resume, Request, ToldOnce
<1>. QED
  BY <1>1, <1>2, <1>3, <1>4, <1>5, <1>6, <1>7, <1>8 DEF Inv

LEMMA KeptByAssignAgentTransfer ==
    ASSUME Inv, NEW t \in Transfers, NEW a \in Agents \cup {Nobody},
         AssignAgentTransfer(t, a)
  PROVE  Inv'

<1>1. TypeOK'
  BY DEF Inv, TypeOK, AssignAgentTransfer, Request, pass
<1>2. Written'
  BY DEF Inv, AssignAgentTransfer, Request, pass, Wrote, Written
<1>3. Raising'
  BY DEF Inv, AssignAgentTransfer, Request, pass, Raising
<1>4. Apart'
  BY DEF Inv, AssignAgentTransfer, Request, pass, Wrote, Apart
<1>5. Selected'
  BY DEF Inv, AssignAgentTransfer, Request, pass, Selected, Committed
<1>6. Noticed'
  BY DEF Inv, AssignAgentTransfer, Request, pass, Noticed, Committed
<1>7. Untold'
  BY DEF Inv, AssignAgentTransfer, Request, Untold
<1>8. ToldOnce'
  BY DEF Inv, AssignAgentTransfer, Request, ToldOnce
<1>. QED
  BY <1>1, <1>2, <1>3, <1>4, <1>5, <1>6, <1>7, <1>8 DEF Inv

LEMMA KeptByPickNextTransfer ==
  ASSUME Inv, NEW t \in Transfers, NEW a \in Agents, PickNextTransfer(t, a)
  PROVE  Inv'

<1>1. TypeOK'
  BY DEF Inv, TypeOK, PickNextTransfer, Request, pass
<1>2. Written'
  BY DEF Inv, PickNextTransfer, Request, pass, Wrote, Written
<1>3. Raising'
  BY DEF Inv, PickNextTransfer, Request, pass, Raising
<1>4. Apart'
  BY DEF Inv, PickNextTransfer, Request, pass, Wrote, Apart
<1>5. Selected'
  BY DEF Inv, PickNextTransfer, Request, pass, Selected, Committed
<1>6. Noticed'
  BY DEF Inv, PickNextTransfer, Request, pass, Noticed, Committed
<1>7. Untold'
  BY DEF Inv, PickNextTransfer, Request, Untold
<1>8. ToldOnce'
  BY DEF Inv, PickNextTransfer, Request, ToldOnce
<1>. QED
  BY <1>1, <1>2, <1>3, <1>4, <1>5, <1>6, <1>7, <1>8 DEF Inv

LEMMA KeptByLoadReturn ==
  ASSUME Inv, NEW t \in Transfers, NEW a \in Agents, LoadReturn(t, a)
  PROVE  Inv'

<1>1. TypeOK'
  BY DEF Inv, TypeOK, LoadReturn, Request, pass, rows
<1>2. Written'
  BY DEF Inv, LoadReturn, Request, pass, Wrote, rows, Written
<1>3. Raising'
  BY DEF Inv, LoadReturn, Request, pass, rows, Raising
<1>4. Apart'
  BY DEF Inv, LoadReturn, Request, pass, Wrote, Apart
<1>5. Selected'
  BY DEF Inv, LoadReturn, Request, pass, Selected, Committed
<1>6. Noticed'
  BY DEF Inv, LoadReturn, Request, pass, rows, Noticed, Committed
<1>7. Untold'
  BY DEF Inv, LoadReturn, Request, rows, Untold
<1>8. ToldOnce'
  BY DEF Inv, LoadReturn, Request, ToldOnce
<1>. QED
  BY <1>1, <1>2, <1>3, <1>4, <1>5, <1>6, <1>7, <1>8 DEF Inv

LEMMA KeptByReturn ==
  ASSUME Inv, NEW t \in Transfers, NEW a \in Agents, Return(t, a)
  PROVE  Inv'

<1>1. TypeOK'
  BY DEF Inv, TypeOK, Return, Request, pass
<1>2. Written'
  BY DEF Inv, Return, Request, pass, Wrote, Written
<1>3. Raising'
  BY DEF Inv, Return, Request, pass, Raising
<1>4. Apart'
  BY DEF Inv, Return, Request, pass, Wrote, Apart
<1>5. Selected'
  BY DEF Inv, Return, Request, pass, Selected, Committed
<1>6. Noticed'
  BY DEF Inv, Return, Request, pass, Noticed, Committed
<1>7. Untold'
  BY DEF Inv, Return, Request, Untold
<1>8. ToldOnce'
  BY DEF Inv, Return, Request, ToldOnce
<1>. QED
  BY <1>1, <1>2, <1>3, <1>4, <1>5, <1>6, <1>7, <1>8 DEF Inv

LEMMA KeptByDeleteContact ==
  ASSUME Inv, DeleteContact
  PROVE  Inv'

<1>1. TypeOK'
  BY DEF Inv, TypeOK, DeleteContact, Request, pass, rows
<1>2. Written'
  BY DEF Inv, DeleteContact, Request, pass, Wrote, rows, Written
<1>3. Raising'
  BY DEF Inv, DeleteContact, Request, pass, rows, Raising
<1>4. Apart'
  BY DEF Inv, DeleteContact, Request, pass, Wrote, Apart
<1>5. Selected'
  BY DEF Inv, DeleteContact, Request, pass, Selected, Committed
<1>6. Noticed'
  BY DEF Inv, DeleteContact, Request, pass, rows, Noticed, Committed
<1>7. Untold'
  BY DEF Inv, DeleteContact, Request, rows, Untold
<1>8. ToldOnce'
  BY DEF Inv, DeleteContact, Request, ToldOnce
<1>. QED
  BY <1>1, <1>2, <1>3, <1>4, <1>5, <1>6, <1>7, <1>8 DEF Inv

LEMMA KeptByPasses ==
    ASSUME Inv, NEW t \in Transfers, NEW deadline \in Deadlines, Passes(t,
         deadline)
  PROVE  Inv'

<1>1. TypeOK'
  BY DEF Inv, TypeOK, Passes, Request, pass
<1>2. Written'
  BY DEF Inv, Passes, Request, pass, Wrote, Written
<1>3. Raising'
  BY DEF Inv, Passes, Request, pass, Raising
<1>4. Apart'
  BY DEF Inv, Passes, Request, pass, Wrote, Apart
<1>5. Selected'
  BY DEF Inv, Passes, Request, pass, Selected, Committed
<1>6. Noticed'
  BY DEF Inv, Passes, Request, pass, Noticed, Committed
<1>7. Untold'
  BY DEF Inv, Passes, Request, Untold
<1>8. ToldOnce'
  BY DEF Inv, Passes, Request, ToldOnce
<1>. QED
  BY <1>1, <1>2, <1>3, <1>4, <1>5, <1>6, <1>7, <1>8 DEF Inv

LEMMA KeptByCommit ==
  ASSUME Inv, NEW p \in Processors, Commit(p)
  PROVE  Inv'

<1>1. TypeOK'
  <2>1. status' \in [Transfers -> {"absent", "active", "resumed", "expired"}]
    BY DEF Inv, TypeOK, Commit
  <2>2. level' \in [Transfers -> 0..2]
    <3>1. level' = [t \in Transfers |-> level'[t]]
      BY DEF Commit
    <3>2. ASSUME NEW t \in Transfers PROVE level'[t] \in 0..2
      <4>1. level[t] \in 0..2
        BY DEF Inv, TypeOK
      <4>2. level'[t] = level[t] \/ (level'[t] = level[t] + 1 /\ level[t] < 2)
        BY CommitMoves
      <4>. QED
        BY <4>1, <4>2
    <3>. QED
      BY <3>1, <3>2
  <2>3. past' \in [Transfers -> SUBSET Deadlines]
    BY DEF Inv, TypeOK, Commit, Deadlines
  <2>4. step' \in [Processors -> {"idle", "close", "escalate", "raise", "commit", "notify", "send"}]
    BY DEF Inv, TypeOK, Commit, Goto
  <2>5. writes' \in [Processors -> SUBSET (Transfers \X Changes)]
    BY DEF Inv, TypeOK, Commit
  <2>6. seen' \in [Processors -> (Transfers \cup {Nobody}) \X (0..2)]
    <3>1. <<Nobody, 0>> \in (Transfers \cup {Nobody}) \X (0..2)
      OBVIOUS
    <3>. QED
      BY <3>1 DEF Inv, TypeOK, Commit
  <2>7. fence' \in [Processors -> BOOLEAN]
    BY DEF Inv, TypeOK, Commit
  <2>. QED
    BY <2>1, <2>2, <2>3, <2>4, <2>5, <2>6, <2>7, CommitMoves DEF Inv, TypeOK
<1>2. Written'
  <2>1. \A q \in Processors : \A t \in Transfers : Wrote(q, t)' => q # p /\ Wrote(q, t)
    BY CommitMoves DEF Wrote
  <2>. QED
    BY <2>1, CommitMoves DEF Inv, Written
<1>3. Raising'
  <2>1. ASSUME NEW q \in Processors, NEW t \in Transfers, <<t, "raise">> \in writes'[q]
        PROVE  q # p /\ <<t, "raise">> \in writes[q] /\ Wrote(q, t)
    BY <2>1, CommitMoves DEF Wrote, Changes
  <2>. QED
    BY <2>1, CommitMoves DEF Inv, Raising
<1>4. Apart'
  <2>1. \A q \in Processors : \A t \in Transfers : Wrote(q, t)' => q # p /\ Wrote(q, t)
    BY CommitMoves DEF Wrote
  <2>. QED
    BY <2>1 DEF Inv, Apart
<1>5. Selected'
  BY DEF Inv, TypeOK, Commit, Goto, Selected, Committed
<1>6. Noticed'
  <2>1. ASSUME NEW t \in Transfers
        PROVE  /\ status[t] = "expired" \/ <<t, "expire">> \in writes[p] => status'[t] = "expired"
               /\ level[t] > 0 \/ <<t, "raise">> \in writes[p] => level'[t] > 0
    <3>1. level[t] \in 0..2 /\ status[t] \in {"absent", "active", "resumed", "expired"}
      BY DEF Inv, TypeOK
    <3>. QED
      BY <3>1, CommitMoves
  <2>2. UNCHANGED <<notice, told>>
    BY CommitMoves
  <2>3. ASSUME NEW q \in Processors, notice[q][2] # "none"
        PROVE  IF q = p THEN step[q] = "commit" /\ step'[q] = "notify"
               ELSE step'[q] = step[q] /\ writes'[q] = writes[q]
    BY <2>3, CommitMoves
  <2>. QED
    BY <2>1, <2>2, <2>3 DEF Inv, Noticed, Committed
<1>7. Untold'
  <2>1. ASSUME NEW t \in Transfers
        PROVE  /\ status'[t] \in {"absent", "active"} => status[t] \in {"absent", "active"}
               /\ level'[t] = 0 => level[t] = 0
    <3>1. level[t] \in 0..2 /\ status[t] \in {"absent", "active", "resumed", "expired"}
      BY DEF Inv, TypeOK
    <3>2. /\ status'[t] = status[t] \/ status'[t] = "expired"
          /\ level'[t] = level[t] \/ level'[t] = level[t] + 1
      BY CommitMoves
    <3>. QED
      BY <3>1, <3>2
  <2>2. UNCHANGED told
    BY CommitMoves
  <2>. QED
    BY <2>1, <2>2 DEF Inv, Untold
<1>8. ToldOnce'
  BY DEF Inv, Commit, ToldOnce
<1>. QED
  BY <1>1, <1>2, <1>3, <1>4, <1>5, <1>6, <1>7, <1>8 DEF Inv

LEMMA KeptByTell ==
  ASSUME Inv, NEW p \in Processors, Tell(p)
  PROVE  Inv'

<1>1. TypeOK'
  <2>1. /\ UNCHANGED <<status, agent, level, past, deleted, returning>>
        /\ writes' = [writes EXCEPT ![p] = {}] /\ step' = [step EXCEPT ![p] = "idle"]
        /\ notice' = [notice EXCEPT ![p] = <<Nobody, "none">>]
    BY DEF Tell, Rest, Goto, rows
  <2>2. writes' \in [Processors -> SUBSET (Transfers \X Changes)]
    BY <2>1 DEF Inv, TypeOK
  <2>3. notice' \in [Processors -> (Transfers \cup {Nobody}) \X {"none", "closed", "warned"}]
    BY <2>1 DEF Inv, TypeOK
  <2>4. seen' \in [Processors -> (Transfers \cup {Nobody}) \X (0..2)]
    BY DEF Inv, TypeOK, Tell, Rest
  <2>5. fence' \in [Processors -> BOOLEAN]
    BY DEF Inv, TypeOK, Tell, Rest
  <2>6. told' \in [Transfers -> [{"closed", "warned"} -> Nat]]
    BY ToldMoves DEF Inv, TypeOK, Tell
  <2>7. step' \in [Processors -> {"idle", "close", "escalate", "raise", "commit", "notify", "send"}]
    BY <2>1 DEF Inv, TypeOK
  <2>8. faults' \in 0..MaxFaults
    BY Constants DEF Inv, TypeOK, Tell
  <2>. QED
    BY <2>1, <2>2, <2>3, <2>4, <2>5, <2>6, <2>7, <2>8 DEF Inv, TypeOK
<1>2. Written'
  BY DEF Inv, TypeOK, Tell, Rest, Goto, rows, Written, Wrote
<1>3. Raising'
  BY DEF Inv, Tell, Rest, Goto, rows, Raising
<1>4. Apart'
  <2>1. /\ UNCHANGED <<status, agent, level, past, deleted, returning>>
        /\ writes' = [writes EXCEPT ![p] = {}] /\ step' = [step EXCEPT ![p] = "idle"]
        /\ notice' = [notice EXCEPT ![p] = <<Nobody, "none">>]
    BY DEF Tell, Rest, Goto, rows
  <2>2. \A q \in Processors : \A t \in Transfers : Wrote(q, t)' => Wrote(q, t)
    BY <2>1 DEF Inv, TypeOK, Wrote
  <2>. QED
    BY <2>2 DEF Inv, Apart
<1>5. Selected'
  BY DEF Inv, TypeOK, Tell, Rest, Goto, Selected, Committed
<1>6. Noticed'
  <2>1. /\ UNCHANGED <<status, agent, level, past, deleted, returning>>
        /\ writes' = [writes EXCEPT ![p] = {}] /\ step' = [step EXCEPT ![p] = "idle"]
        /\ notice' = [notice EXCEPT ![p] = <<Nobody, "none">>]
    BY DEF Tell, Rest, Goto, rows
  <2>2. /\ notice'[p][2] = "none"
        /\ \A q \in Processors \ {p} : /\ notice'[q] = notice[q] /\ step'[q] = step[q]
                                       /\ writes'[q] = writes[q]
    BY <2>1 DEF Inv, TypeOK
  <2>3. ASSUME NEW q \in Processors \ {p}, notice[q][2] # "none"
        PROVE  told'[notice[q][1]][notice[q][2]] = told[notice[q][1]][notice[q][2]]
    <3>1. ToldNow(p) BY ToldMoves
    <3>2. notice[q][1] \in Transfers
      BY <2>3 DEF Inv, Noticed, Committed
    <3>3. notice[q][2] \in {"closed", "warned"}
      BY <2>3, <3>2 DEF Inv, TypeOK
    <3>4. ~(notice[q][1] = notice[p][1] /\ notice[q][2] = notice[p][2])
      BY <2>3, <3>1 DEF Inv, Noticed, ToldNow, Committed
    <3>. QED
      BY <3>1, <3>2, <3>3, <3>4 DEF Inv, TypeOK, ToldNow
  <2>. QED
    BY <2>1, <2>2, <2>3 DEF Inv, Noticed, Committed
<1>7. Untold'
  <2>1. /\ UNCHANGED <<status, agent, level, past, deleted, returning>>
        /\ writes' = [writes EXCEPT ![p] = {}] /\ step' = [step EXCEPT ![p] = "idle"]
        /\ notice' = [notice EXCEPT ![p] = <<Nobody, "none">>]
    BY DEF Tell, Rest, Goto, rows
  <2>2. ToldNow(p) BY ToldMoves
  <2>. QED
    BY <2>1, <2>2 DEF Inv, TypeOK, Untold, ToldNow
<1>8. ToldOnce'
  <2>1. ToldNow(p) BY ToldMoves
  <2>. QED
    BY <2>1 DEF Inv, TypeOK, ToldOnce, ToldNow
<1>. QED
  BY <1>1, <1>2, <1>3, <1>4, <1>5, <1>6, <1>7, <1>8 DEF Inv

LEMMA KeptByRest ==
  ASSUME Inv, NEW p \in Processors, Rest(p), Unseen
  PROVE  Inv'

<1>1. TypeOK'
  <2>1. /\ UNCHANGED <<status, agent, level, past, deleted, returning>>
        /\ writes' = [writes EXCEPT ![p] = {}] /\ step' = [step EXCEPT ![p] = "idle"]
        /\ notice' = [notice EXCEPT ![p] = <<Nobody, "none">>]
    BY DEF Unseen, Rest, Goto, rows
  <2>2. writes' \in [Processors -> SUBSET (Transfers \X Changes)]
    BY <2>1 DEF Inv, TypeOK
  <2>3. notice' \in [Processors -> (Transfers \cup {Nobody}) \X {"none", "closed", "warned"}]
    BY <2>1 DEF Inv, TypeOK
  <2>4. seen' \in [Processors -> (Transfers \cup {Nobody}) \X (0..2)]
    BY DEF Inv, TypeOK, Unseen, Rest
  <2>5. fence' \in [Processors -> BOOLEAN]
    BY DEF Inv, TypeOK, Unseen, Rest
  <2>6. told' \in [Transfers -> [{"closed", "warned"} -> Nat]]
    BY DEF Inv, TypeOK, Unseen, rows
  <2>7. step' \in [Processors -> {"idle", "close", "escalate", "raise", "commit", "notify", "send"}]
    BY <2>1 DEF Inv, TypeOK
  <2>8. faults' \in 0..MaxFaults
    BY DEF Unseen
  <2>. QED
    BY <2>1, <2>2, <2>3, <2>4, <2>5, <2>6, <2>7, <2>8 DEF Inv, TypeOK
<1>2. Written'
  BY DEF Inv, TypeOK, Unseen, Rest, Goto, rows, Written, Wrote
<1>3. Raising'
  BY DEF Inv, TypeOK, Unseen, Rest, Goto, rows, Raising
<1>4. Apart'
  <2>1. /\ UNCHANGED <<status, agent, level, past, deleted, returning>>
        /\ writes' = [writes EXCEPT ![p] = {}] /\ step' = [step EXCEPT ![p] = "idle"]
        /\ notice' = [notice EXCEPT ![p] = <<Nobody, "none">>]
    BY DEF Unseen, Rest, Goto, rows
  <2>2. \A q \in Processors : \A t \in Transfers : Wrote(q, t)' => Wrote(q, t)
    BY <2>1 DEF Inv, TypeOK, Wrote
  <2>. QED
    BY <2>2 DEF Inv, Apart
<1>5. Selected'
  BY DEF Inv, TypeOK, Unseen, Rest, Goto, Selected, Committed
<1>6. Noticed'
  BY DEF Inv, TypeOK, Unseen, Rest, Goto, rows, Noticed, Committed
<1>7. Untold'
  BY DEF Inv, Unseen, rows, Untold
<1>8. ToldOnce'
  BY DEF Inv, Unseen, rows, ToldOnce
<1>. QED
  BY <1>1, <1>2, <1>3, <1>4, <1>5, <1>6, <1>7, <1>8 DEF Inv

LEMMA KeptByFails ==
  ASSUME Inv, NEW p \in Processors, Fails(p)
  PROVE  Inv'

<1>1. Rest(p) /\ Unseen
  BY Constants DEF Inv, TypeOK, Fails, Unseen
<1>. QED
  BY <1>1, KeptByRest

\* A row's writes are rolled back before it has any that are kept.
LEMMA KeptByRowFails ==
  ASSUME Inv, NEW p \in Processors, RowFails(p)
  PROVE  Inv'

<1>. DEFINE s == seen[p]
<1>1. PICK to \in {"escalate", "commit"} :
        Goto(p, to) /\ step[p] \in {"idle", "close", "escalate", "raise"}
  BY DEF RowFails
<1>2. UNCHANGED <<writes, fence, notice>> /\ Unseen
  BY Constants DEF Inv, TypeOK, RowFails, Unseen
<1>3. s \in (Transfers \cup {Nobody}) \X (0..2) /\ seen' = [seen EXCEPT ![p] = s]
  BY DEF Inv, TypeOK, RowFails
<1>. HIDE DEF s
<1>. QED
  BY <1>1, <1>2, <1>3, PassMoves

LEMMA KeptByLook ==
  ASSUME Inv, NEW p \in Processors, Look(p)
  PROVE  Inv'

<1>1. step[p] = "notify" /\ Unseen
  BY DEF Inv, TypeOK, Look, Unseen
<1>2. CASE Rest(p)
  BY <1>1, <1>2, KeptByRest
<1>3. CASE Goto(p, "send") /\ UNCHANGED <<seen, writes, fence, notice>>
  <2>1. /\ UNCHANGED <<status, agent, level, past, deleted, returning, told, seen, writes>>
        /\ UNCHANGED <<fence, notice>> /\ faults' \in 0..MaxFaults
    BY <1>1, <1>3 DEF Unseen, rows
  <2>2. \A q \in Processors : step'[q] = IF q = p THEN "send" ELSE step[q]
    BY <1>3 DEF Inv, TypeOK, Goto
  <2>3. \A q \in Processors : Committed(q)' <=> Committed(q)
    BY <1>1, <2>2 DEF Committed
  <2>4. TypeOK'
    BY <1>3, <2>1 DEF Inv, TypeOK, Goto
  <2>5. Written' /\ Raising' /\ Apart'
    BY <1>1, <2>1, <2>2 DEF Inv, Written, Raising, Apart, Wrote
  <2>6. Selected'
    BY <2>1, <2>2, <2>3 DEF Inv, Selected, Committed
  <2>7. Noticed'
    BY <1>1, <2>1, <2>2, <2>3 DEF Inv, Noticed, Committed
  <2>8. Untold' /\ ToldOnce'
    BY <2>1 DEF Inv, Untold, ToldOnce
  <2>. QED
    BY <2>4, <2>5, <2>6, <2>7, <2>8 DEF Inv
<1>. QED
  BY <1>2, <1>3 DEF Look

LEMMA KeptByStutter ==
  ASSUME Inv, UNCHANGED vars
  PROVE  Inv'

<1>1. TypeOK'
  BY DEF Inv, TypeOK, vars, rows, pass
<1>2. Written'
  BY DEF Inv, vars, rows, pass, Written, Wrote
<1>3. Raising'
  BY DEF Inv, vars, rows, pass, Raising
<1>4. Apart'
  BY DEF Inv, vars, pass, Apart, Wrote
<1>5. Selected'
  BY DEF Inv, vars, pass, Selected, Committed
<1>6. Noticed'
  BY DEF Inv, vars, rows, pass, Noticed, Committed
<1>7. Untold'
  BY DEF Inv, vars, rows, Untold
<1>8. ToldOnce'
  BY DEF Inv, vars, ToldOnce
<1>. QED
  BY <1>1, <1>2, <1>3, <1>4, <1>5, <1>6, <1>7, <1>8 DEF Inv

LEMMA InvInit == Init => Inv

<1>. SUFFICES ASSUME Init PROVE Inv
  OBVIOUS
<1>1. TypeOK
  <2>1. /\ status \in [Transfers -> {"absent", "active", "resumed", "expired"}]
        /\ agent \in [Transfers -> Agents \cup {Nobody}]
        /\ level \in [Transfers -> 0..2] /\ past \in [Transfers -> SUBSET Deadlines]
        /\ returning \in [Agents -> Transfers \cup {Nobody}]
    BY DEF Init
  <2>2. /\ step \in [Processors -> {"idle", "close", "escalate", "raise", "commit", "notify",
                                    "send"}]
        /\ writes \in [Processors -> SUBSET (Transfers \X Changes)]
        /\ fence \in [Processors -> BOOLEAN]
    BY DEF Init
  <2>3. /\ <<Nobody, 0>> \in (Transfers \cup {Nobody}) \X (0..2)
        /\ <<Nobody, "none">> \in (Transfers \cup {Nobody}) \X {"none", "closed", "warned"}
    OBVIOUS
  <2>4. /\ seen \in [Processors -> (Transfers \cup {Nobody}) \X (0..2)]
        /\ notice \in [Processors -> (Transfers \cup {Nobody}) \X {"none", "closed", "warned"}]
    BY <2>3 DEF Init
  <2>5. told \in [Transfers -> [{"closed", "warned"} -> Nat]]
    BY DEF Init
  <2>6. deleted \in BOOLEAN
    BY Zenon DEF Init
  <2>7. faults \in 0..MaxFaults
    BY Constants DEF Init
  <2>. QED
    BY <2>1, <2>2, <2>4, <2>5, <2>6, <2>7 DEF TypeOK
<1>2. Written /\ Raising /\ Apart /\ Selected
  BY DEF Init, Written, Raising, Apart, Selected, Wrote, Committed
<1>3. Noticed /\ Untold /\ ToldOnce
  BY DEF Init, Noticed, Untold, ToldOnce, Committed
<1>. QED
  BY <1>1, <1>2, <1>3 DEF Inv

LEMMA InvNext == Inv /\ [Next]_vars => Inv'

<1>. SUFFICES ASSUME Inv, [Next]_vars PROVE Inv'
  OBVIOUS
<1>1. ASSUME NEW t \in Transfers, NEW a \in Agents \cup {Nobody},
             Create(t, a) \/ AssignAgentTransfer(t, a)
      PROVE  Inv'
  BY <1>1, KeptByCreate, KeptByAssignAgentTransfer
<1>2. ASSUME NEW t \in Transfers, NEW a \in Agents,
             PickNextTransfer(t, a) \/ LoadReturn(t, a) \/ Return(t, a)
      PROVE  Inv'
  BY <1>2, KeptByPickNextTransfer, KeptByLoadReturn, KeptByReturn
<1>3. ASSUME NEW t \in Transfers, \/ Resume(t)
                                  \/ \E deadline \in Deadlines : Passes(t, deadline)
      PROVE  Inv'
  BY <1>3, KeptByResume, KeptByPasses
<1>4. CASE DeleteContact \/ UNCHANGED vars
  BY <1>4, KeptByDeleteContact, KeptByStutter
<1>5. ASSUME NEW p \in Processors, Tick(p) \/ RowFails(p) \/ Fails(p)
      PROVE  Inv'
  BY <1>5, KeptByBegin, KeptByCloseExpired, KeptByJudgeWaiting, KeptByEscalate, KeptByCommit,
     KeptByLook, KeptByTell, KeptByRowFails, KeptByFails DEF Tick
<1>. QED
  BY <1>1, <1>2, <1>3, <1>4, <1>5 DEF Next

\* The invariant holds in every state.
THEOREM TransferInvariant == Spec => []Inv

<1>. QED
  BY InvInit, InvNext, PTL DEF Spec

\* The rows and the processors' state stay well formed: no level above the
\* second, no notice about nothing.
THEOREM TransferTypeCorrect == Spec => []TypeOK

<1>1. Inv => TypeOK
  BY DEF Inv
<1>. QED
  BY <1>1, TransferInvariant, PTL

\* However many instances run the processor, the customer is warned once and
\* told once.
THEOREM ToldOnceHolds == Spec => []ToldOnce

<1>1. Inv => ToldOnce
  BY DEF Inv
<1>. QED
  BY <1>1, TransferInvariant, PTL

\* No straggler, request or processor, changes a closed transfer, and levels
\* rise one by one.
THEOREM OnlyAdvancesHolds == Spec => OnlyAdvances

<1>1. ASSUME Inv, [Next]_vars PROVE [\A t \in Transfers : Advances(t)]_vars
  <2>. SUFFICES ASSUME Next, NEW u \in Transfers PROVE Advances(u)
    BY <1>1
  <2>. USE <1>1 DEF Advances
  <2>1. status[u] \in {"absent", "active", "resumed", "expired"} /\ level[u] \in 0..2
    BY DEF Inv, TypeOK
  <2>2. ASSUME NEW t \in Transfers, NEW a \in Agents \cup {Nobody},
               Create(t, a) \/ AssignAgentTransfer(t, a)
        PROVE  Advances(u)
    BY <2>2 DEF Inv, TypeOK, Create, AssignAgentTransfer, Active
  <2>3. ASSUME NEW t \in Transfers, NEW a \in Agents,
               PickNextTransfer(t, a) \/ LoadReturn(t, a) \/ Return(t, a)
        PROVE  Advances(u)
    BY <2>3 DEF Inv, TypeOK, PickNextTransfer, LoadReturn, Return, Active, rows
  <2>4. ASSUME NEW t \in Transfers, \/ Resume(t)
                                    \/ \E deadline \in Deadlines : Passes(t, deadline)
        PROVE  Advances(u)
    BY <2>4 DEF Inv, TypeOK, Resume, Passes, Active
  <2>5. CASE DeleteContact
    BY <2>5 DEF DeleteContact, rows
  <2>6. ASSUME NEW p \in Processors, Begin(p) \/ CloseExpired(p) \/ JudgeWaiting(p) \/ Escalate(p)
        PROVE  Advances(u)
    BY <2>6 DEF Begin, CloseExpired, JudgeWaiting, Escalate, Uncommitted, rows
  <2>7. ASSUME NEW p \in Processors, Look(p) \/ Tell(p) \/ RowFails(p) \/ Fails(p)
        PROVE  Advances(u)
    BY <2>7 DEF Look, Tell, RowFails, Fails, rows
  <2>8. ASSUME NEW p \in Processors, Commit(p)
        PROVE  Advances(u)
    <3>1. <<u, "expire">> \in writes[p] => status[u] = "active"
      BY DEF Inv, Written, Wrote, Changes
    <3>2. /\ status'[u] = IF <<u, "expire">> \in writes[p] THEN "expired" ELSE status[u]
          /\ agent' = agent
          /\ <<u, "raise">> \in writes[p] => level'[u] = level[u] + 1
          /\ <<u, "raise">> \notin writes[p] => level'[u] = level[u]
      BY <2>8, CommitMoves
    <3>. QED
      BY <3>1, <3>2
  <2>. QED
    BY <1>1, <2>2, <2>3, <2>4, <2>5, <2>6, <2>7, <2>8 DEF Next, Tick
<1>2. Inv /\ [Next]_vars => [\A t \in Transfers : Advances(t)]_vars
  BY <1>1
<1>. QED
  BY <1>2, TransferInvariant, PTL DEF Spec, OnlyAdvances
-----------------------------------------------------------------------------
(* What a handover promises                                                *)

\* One handover is open at a time, and they are opened one after the other.
OneOpen ==
    /\ \A t, u \in Active : t = u
    /\ \A t, u \in Transfers : status[t] = "absent" /\ t <= u => status[u] = "absent"

\* A pass does not escalate what it closes.
Exclusive ==
    \A p \in Processors : \A t \in Transfers :
        <<t, "raise">> \in writes[p] \/ (step[p] = "raise" /\ seen[p][1] = t)
            => <<t, "expire">> \notin writes[p]

HandoverInv == OneOpen /\ Exclusive

\* A step of the requests and processors is a step of the handovers, or none.
Simulates == Promise!Next \/ UNCHANGED Promise!vars

\* What is being sent depends on the processors that send.
LEMMA TellingTheSame ==
  ASSUME \A q \in Processors : /\ step'[q] = "send" <=> step[q] = "send"
                               /\ step[q] = "send" => notice'[q] = notice[q]
  PROVE  Telling' = Telling
  BY DEF Telling

\* What a pass does before its commit is seen by nobody.
LEMMA PassUnseen ==
  ASSUME Inv, NEW p \in Processors,
         Begin(p) \/ CloseExpired(p) \/ JudgeWaiting(p) \/ Escalate(p) \/ RowFails(p)
  PROVE  UNCHANGED <<status, agent, level, told, Telling>>
<1>1. UNCHANGED <<status, agent, level, told>>
  BY DEF Begin, CloseExpired, JudgeWaiting, Escalate, RowFails, Uncommitted, rows
<1>2. PICK to \in {"close", "escalate", "raise", "commit"} : Goto(p, to) /\ step[p] # "send"
  BY DEF Begin, CloseOrphans, JudgeExpired, NoneExpired, CloseExpired, JudgeWaiting, Escalate,
         RowFails
<1>3. \A q \in Processors \ {p} : notice'[q] = notice[q]
  BY DEF Begin, CloseExpired, JudgeWaiting, Escalate, RowFails, Inv, TypeOK
<1>4. \A q \in Processors : step'[q] = IF q = p THEN to ELSE step[q]
  BY <1>2 DEF Goto, Inv, TypeOK
<1>5. Telling' = Telling BY <1>2, <1>3, <1>4, TellingTheSame
<1>. QED BY <1>1, <1>5

LEMMA RequestUnseen ==
  ASSUME \/ DeleteContact
         \/ \E t \in Transfers, a \in Agents : LoadReturn(t, a)
         \/ \E t \in Transfers, deadline \in Deadlines : Passes(t, deadline)
         \/ UNCHANGED vars
  PROVE  UNCHANGED <<status, agent, level, told, Telling>>
<1>1. UNCHANGED <<status, agent, level, told, step, notice>>
  BY DEF DeleteContact, LoadReturn, Passes, Request, vars, rows, pass
<1>. QED BY <1>1, TellingTheSame

\* A handover is opened when all before it are closed.
LEMMA CreateSimulates ==
  ASSUME Inv, OneOpen, NEW t \in Transfers, NEW a \in Agents \cup {Nobody}, Create(t, a)
  PROVE  Simulates /\ OneOpen'
<1>1. /\ Active = {} /\ status[t] = "absent" /\ UNCHANGED <<level, told, step, notice>>
      /\ \A u \in Transfers : u < t => status[u] # "absent"
      /\ status' = [status EXCEPT ![t] = "active"] /\ agent' = [agent EXCEPT ![t] = a]
  BY DEF Create, Request, pass
<1>2. t \in Nat /\ \A u \in Transfers : u \in Nat BY DEF Transfers
<1>3. \A u \in Transfers : status[u] = "absent" <=> u >= t
  BY <1>1, <1>2 DEF OneOpen
<1>4. Promise!Open(t, a) BY <1>1, <1>3, TellingTheSame DEF Promise!Open, Promise!Active, Active
<1>5. \A u \in Transfers : status'[u] = IF u = t THEN "active" ELSE status[u]
  BY <1>1 DEF Inv, TypeOK
<1>6. \A u, v \in Active' : u = v BY <1>1, <1>5 DEF Active
<1>7. \A u, v \in Transfers : status'[u] = "absent" /\ u <= v => status'[v] = "absent"
  BY <1>1, <1>2, <1>3, <1>5
<1>. QED BY <1>4, <1>6, <1>7 DEF Simulates, Promise!Next, OneOpen

\* A handover that is closed, or not yet opened, is closed or not yet opened
\* after anything else.
LEMMA OthersKeepOneOpen ==
  ASSUME Inv, OneOpen,
         \A t \in Transfers : status'[t] = status[t]
                                \/ (status[t] = "active" /\ status'[t] \in {"resumed", "expired"})
  PROVE  OneOpen'
<1>1. Active' \subseteq Active BY DEF Active
<1>2. \A t \in Transfers : status'[t] = "absent" <=> status[t] = "absent" OBVIOUS
<1>. QED BY <1>1, <1>2 DEF OneOpen

\* A person or an agent acts on what is open.
LEMMA RequestSimulates ==
  ASSUME Inv, OneOpen, NEW t \in Transfers, NEW a \in Agents \cup {Nobody},
         \/ Resume(t) \/ AssignAgentTransfer(t, a)
         \/ a \in Agents /\ (PickNextTransfer(t, a) \/ Return(t, a))
  PROVE  Simulates /\ OneOpen'
<1>1. Promise!Active = Active /\ Telling' = Telling
  <2>1. UNCHANGED <<step, notice>>
    BY DEF Resume, AssignAgentTransfer, PickNextTransfer, Return, Request, pass
  <2>. QED BY <2>1, TellingTheSame DEF Promise!Active, Active
<1>2. CASE Resume(t)
  <2>1. Promise!Close(t, "resumed") BY <1>1, <1>2 DEF Resume, Request, Promise!Close
  <2>2. \A u \in Transfers : status'[u] = IF u = t THEN "resumed" ELSE status[u]
    BY <1>2 DEF Resume, Inv, TypeOK
  <2>3. status[t] = "active" BY <1>2 DEF Resume, Active
  <2>. QED BY <2>1, <2>2, <2>3, OthersKeepOneOpen DEF Simulates, Promise!Next
<1>3. ASSUME t \in Active, NEW b \in Agents \cup {Nobody}, agent' = [agent EXCEPT ![t] = b],
             UNCHANGED <<status, level, told>>
      PROVE  Simulates /\ OneOpen'
  <2>1. Promise!Assign(t, b) BY <1>1, <1>3 DEF Promise!Assign
  <2>. QED BY <1>3, <2>1, OthersKeepOneOpen DEF Simulates, Promise!Next
<1>4. CASE AssignAgentTransfer(t, a) BY <1>3, <1>4 DEF AssignAgentTransfer, Request
<1>5. CASE a \in Agents /\ PickNextTransfer(t, a) BY <1>3, <1>5 DEF PickNextTransfer, Request
<1>6. CASE a \in Agents /\ Return(t, a)
  <2>1. UNCHANGED <<status, level, told>> BY <1>6 DEF Return, Request
  <2>2. CASE t \in Active /\ agent[t] = a
    BY <1>3, <1>6, <2>1, <2>2 DEF Return
  <2>3. CASE ~(t \in Active /\ agent[t] = a)
    <3>1. UNCHANGED agent BY <1>6, <2>3 DEF Return
    <3>. QED BY <2>1, <3>1, <1>1, OthersKeepOneOpen DEF Simulates, Promise!vars
  <2>. QED BY <2>2, <2>3
<1>. QED BY <1>2, <1>4, <1>5, <1>6

\* A commit closes the open handover, or raises it by one, or neither.
LEMMA CommitSimulates ==
  ASSUME Inv, HandoverInv, NEW p \in Processors, Commit(p)
  PROVE  Simulates /\ OneOpen'
<1>1. /\ UNCHANGED <<agent, told>>
      /\ \A t \in Transfers :
           /\ status'[t] = IF <<t, "expire">> \in writes[p] THEN "expired" ELSE status[t]
           /\ <<t, "raise">> \in writes[p] => level'[t] = level[t] + 1 /\ level[t] < 2
           /\ <<t, "raise">> \notin writes[p] => level'[t] = level[t]
  BY CommitMoves
<1>2. \A t \in Transfers : <<t, "expire">> \in writes[p] \/ <<t, "raise">> \in writes[p]
                             => t \in Active
  BY DEF Inv, Written, Wrote, Changes, Active
<1>3. OneOpen'
  BY <1>1, <1>2, OthersKeepOneOpen DEF HandoverInv, Active
<1>4. /\ status' = [u \in Transfers |-> status'[u]] /\ level' = [u \in Transfers |-> level'[u]]
      /\ status = [u \in Transfers |-> status[u]] /\ level = [u \in Transfers |-> level[u]]
  BY DEF Commit, Inv, TypeOK
<1>5. Promise!Active = Active /\ Telling' = Telling
  <2>1. \A q \in Processors : (step'[q] = "send" <=> step[q] = "send") /\ notice'[q] = notice[q]
    BY CommitMoves
  <2>. QED BY <2>1, TellingTheSame DEF Promise!Active, Active
<1>6. ASSUME NEW t \in Transfers, <<t, "expire">> \in writes[p] PROVE Simulates
  <2>1. \A u \in Transfers : /\ status'[u] = IF u = t THEN "expired" ELSE status[u]
                             /\ level'[u] = level[u]
    BY <1>1, <1>2, <1>6 DEF HandoverInv, OneOpen, Exclusive
  <2>2. status' = [status EXCEPT ![t] = "expired"] /\ level' = level BY <1>4, <2>1
  <2>3. Promise!Close(t, "expired") BY <1>1, <1>2, <1>5, <1>6, <2>2 DEF Promise!Close
  <2>. QED BY <2>3 DEF Simulates, Promise!Next
<1>7. ASSUME NEW t \in Transfers, <<t, "raise">> \in writes[p] PROVE Simulates
  <2>1. \A u \in Transfers : /\ status'[u] = status[u]
                             /\ level'[u] = IF u = t THEN level[u] + 1 ELSE level[u]
    BY <1>1, <1>2, <1>7 DEF HandoverInv, OneOpen, Exclusive
  <2>2. level' = [level EXCEPT ![t] = @ + 1] /\ status' = status BY <1>4, <2>1
  <2>3. Promise!Raise(t) BY <1>1, <1>2, <1>5, <1>7, <2>2 DEF Promise!Raise
  <2>. QED BY <2>3 DEF Simulates, Promise!Next
<1>8. CASE \A t \in Transfers : <<t, "expire">> \notin writes[p] /\ <<t, "raise">> \notin writes[p]
  <2>1. \A u \in Transfers : status'[u] = status[u] /\ level'[u] = level[u] BY <1>1, <1>8
  <2>2. status' = status /\ level' = level BY <1>4, <2>1
  <2>. QED BY <1>1, <1>3, <1>5, <2>2 DEF Simulates, Promise!vars
<1>. QED BY <1>3, <1>6, <1>7, <1>8

\* A notice has its transfer and its kind.
LEMMA NoticeOf ==
  ASSUME Inv, NEW p \in Processors, Committed(p)
  PROVE  LET t == notice[p][1]
             kind == notice[p][2]
         IN /\ t \in Transfers /\ kind \in {"closed", "warned"} /\ notice[p] = <<t, kind>>
            /\ told[t][kind] = 0
            /\ \A q \in Processors : notice[q] = notice[p] => q = p
<1> DEFINE t == notice[p][1]
           kind == notice[p][2]
<1>1. kind # "none" BY DEF Inv, Selected
<1>2. notice[p] \in (Transfers \cup {Nobody}) \X {"none", "closed", "warned"} BY DEF Inv, TypeOK
<1>3. kind \in {"closed", "warned"} /\ notice[p] = <<t, kind>> BY <1>1, <1>2
<1>4. /\ t \in Transfers /\ told[t][kind] = 0
      /\ \A q \in Processors : notice[q][1] = t /\ notice[q][2] = kind => q = p
  BY <1>1 DEF Inv, Noticed
<1>. QED BY <1>3, <1>4

\* Who looks and finds it so, is about to tell it.
LEMMA LookSimulates ==
  ASSUME Inv, OneOpen, NEW p \in Processors, Look(p)
  PROVE  Simulates /\ OneOpen'
<1> DEFINE t == notice[p][1]
           kind == notice[p][2]
<1>1. step[p] = "notify" /\ UNCHANGED <<status, agent, level, told>>
  BY DEF Look, rows
<1>2. OneOpen' BY <1>1, OthersKeepOneOpen
<1>3. CASE Rest(p)
  <2>1. \A q \in Processors : /\ step'[q] = "send" <=> step[q] = "send"
                              /\ step[q] = "send" => notice'[q] = notice[q]
    BY <1>1, <1>3 DEF Rest, Goto, Inv, TypeOK
  <2>. QED BY <1>1, <1>2, <2>1, TellingTheSame DEF Simulates, Promise!vars
<1>4. CASE StillCurrent(t, kind) /\ Goto(p, "send") /\ UNCHANGED notice
  <2>1. /\ t \in Transfers /\ kind \in {"closed", "warned"} /\ notice[p] = <<t, kind>>
        /\ told[t][kind] = 0
        /\ \A q \in Processors : notice[q] = notice[p] => q = p
    BY <1>1, NoticeOf DEF Committed
  <2>2. \A q \in Processors : step'[q] = IF q = p THEN "send" ELSE step[q]
    BY <1>4 DEF Goto, Inv, TypeOK
  <2>3. <<t, kind>> \notin Telling /\ Telling' = Telling \cup {<<t, kind>>}
    BY <1>1, <1>4, <2>1, <2>2 DEF Telling
  <2>4. Promise!So(t, kind)
    BY <1>4, <2>1 DEF StillCurrent, Promise!So, Promise!Active, Active
  <2>5. Promise!Look(t, kind) BY <1>1, <2>3, <2>4 DEF Promise!Look
  <2>. QED BY <1>2, <2>1, <2>5 DEF Simulates, Promise!Next
<1>. QED BY <1>3, <1>4 DEF Look

\* What is sent, or lost, is no longer being told.
LEMMA TellingEnds ==
  ASSUME Inv, NEW p \in Processors, step[p] = "send", Rest(p)
  PROVE  notice[p] \in Telling /\ Telling' = Telling \ {notice[p]}
<1>1. \A q \in Processors : notice[q] = notice[p] => q = p BY NoticeOf DEF Committed
<1>2. /\ step'[p] = "idle"
      /\ \A q \in Processors \ {p} : step'[q] = step[q] /\ notice'[q] = notice[q]
  BY DEF Rest, Goto, Inv, TypeOK
<1>. QED BY <1>1, <1>2 DEF Telling

\* The customer is told for the first time.
LEMMA TellSimulates ==
  ASSUME Inv, OneOpen, NEW p \in Processors, Tell(p)
  PROVE  Simulates /\ OneOpen'
<1> DEFINE t == notice[p][1]
           kind == notice[p][2]
<1>1. step[p] = "send" /\ Rest(p) /\ UNCHANGED <<status, agent, level>>
  BY DEF Tell, rows
<1>2. OneOpen' BY <1>1, OthersKeepOneOpen
<1>3. t \in Transfers /\ kind \in {"closed", "warned"} /\ notice[p] = <<t, kind>>
  BY <1>1, NoticeOf DEF Committed
<1>4. told' = [told EXCEPT ![t][kind] = 1] BY ToldMoves DEF ToldNow
<1>5. Promise!Tell(t, kind) BY <1>1, <1>3, <1>4, TellingEnds DEF Promise!Tell
<1>. QED BY <1>2, <1>3, <1>5 DEF Simulates, Promise!Next

\* A notice may be lost.
LEMMA FailsSimulates ==
  ASSUME Inv, OneOpen, NEW p \in Processors, Fails(p)
  PROVE  Simulates /\ OneOpen'
<1> DEFINE t == notice[p][1]
           kind == notice[p][2]
<1>1. Rest(p) /\ UNCHANGED <<status, agent, level, told>>
  BY DEF Fails, rows
<1>2. OneOpen' BY <1>1, OthersKeepOneOpen
<1>3. CASE step[p] = "send"
  <2>1. t \in Transfers /\ kind \in {"closed", "warned"} /\ notice[p] = <<t, kind>>
    BY <1>3, NoticeOf DEF Committed
  <2>2. Promise!Drop(t, kind) BY <1>1, <1>3, <2>1, TellingEnds DEF Promise!Drop
  <2>. QED BY <1>2, <2>1, <2>2 DEF Simulates, Promise!Next
<1>4. CASE step[p] # "send"
  <2>1. \A q \in Processors : /\ step'[q] = "send" <=> step[q] = "send"
                              /\ step[q] = "send" => notice'[q] = notice[q]
    BY <1>1, <1>4 DEF Rest, Goto, Inv, TypeOK
  <2>. QED BY <1>1, <1>2, <2>1, TellingTheSame DEF Simulates, Promise!vars
<1>. QED BY <1>3, <1>4

\* A pass that does not come to escalate, and raises nothing, may write more.
LEMMA MoveKeepsExclusive ==
  ASSUME Inv, Exclusive, NEW p \in Processors, step[p] # "commit",
         NEW to, to # "raise", Goto(p, to), NEW s, seen' = [seen EXCEPT ![p] = s],
         NEW added, Write(p, added), \A t \in Transfers : <<t, "raise">> \notin added
  PROVE  Exclusive'
<1>1. \A q \in Processors \ {p} : writes'[q] = writes[q] /\ step'[q] = step[q] /\ seen'[q] = seen[q]
  BY DEF Inv, TypeOK, Goto, Write
<1>2. step'[p] = to /\ writes'[p] = writes[p] \cup added BY DEF Inv, TypeOK, Goto, Write
<1>3. \A t \in Transfers : <<t, "raise">> \notin writes[p] BY DEF Inv, Raising
<1>4. \A t \in Transfers : <<t, "raise">> \notin writes'[p] BY <1>2, <1>3
<1>5. step'[p] # "raise" BY <1>2
<1>. QED BY <1>1, <1>4, <1>5 DEF Exclusive

LEMMA WritesNothing ==
  ASSUME Inv, NEW p \in Processors, UNCHANGED writes
  PROVE  Write(p, {})
  BY DEF Inv, TypeOK, Write

LEMMA SeesTheSame ==
  ASSUME Inv, NEW p \in Processors, UNCHANGED seen
  PROVE  \E s : seen' = [seen EXCEPT ![p] = s]
<1>1. seen = [seen EXCEPT ![p] = seen[p]] BY DEF Inv, TypeOK
<1>. QED BY <1>1

\* A pass looks for what to escalate among what it leaves open.
LEMMA ExclusiveNext ==
  ASSUME Inv, Exclusive, [Next]_vars
  PROVE  Exclusive'
<1>1. CASE UNCHANGED <<step, seen, writes>> BY <1>1 DEF Exclusive
<1>2. ASSUME NEW p \in Processors, Begin(p) PROVE Exclusive'
  <2>1. step[p] = "idle" BY <1>2 DEF Begin
  <2>2. CASE CloseOrphans(p)
    <3> DEFINE added == {<<t, "expire">> : t \in Orphans}
    <3>1. Goto(p, "escalate") /\ Write(p, added) /\ UNCHANGED seen BY <2>2 DEF CloseOrphans
    <3>2. \A t \in Transfers : <<t, "raise">> \notin added OBVIOUS
    <3> HIDE DEF added
    <3>. QED BY <2>1, <3>1, <3>2, SeesTheSame, MoveKeepsExclusive
  <2>3. CASE JudgeExpired(p)
    <3>1. PICK t \in Active : \/ /\ Write(p, {<<t, "extend expiry">>})
                                 /\ Goto(p, "escalate") /\ UNCHANGED seen
                              \/ /\ seen' = [seen EXCEPT ![p] = <<t, level[t]>>]
                                 /\ Goto(p, "close") /\ UNCHANGED writes
      BY <2>3 DEF JudgeExpired
    <3>2. ASSUME Write(p, {<<t, "extend expiry">>}), Goto(p, "escalate"), UNCHANGED seen
          PROVE  Exclusive'
      <4> DEFINE added == {<<t, "extend expiry">>}
      <4>1. Write(p, added) /\ \A u \in Transfers : <<u, "raise">> \notin added BY <3>2
      <4> HIDE DEF added
      <4>. QED BY <2>1, <3>2, <4>1, SeesTheSame, MoveKeepsExclusive
    <3>3. ASSUME NEW s, seen' = [seen EXCEPT ![p] = s], Goto(p, "close"), UNCHANGED writes
          PROVE  Exclusive'
      <4>1. PICK none : Write(p, none) /\ \A u \in Transfers : <<u, "raise">> \notin none
        BY <3>3, WritesNothing
      <4>2. step[p] # "commit" /\ "close" # "raise" BY <2>1
      <4>. QED BY <3>3, <4>1, <4>2, MoveKeepsExclusive
    <3>. QED BY <3>1, <3>2, <3>3
  <2>4. CASE NoneExpired(p)
    <3>1. Goto(p, "escalate") /\ UNCHANGED <<writes, seen>> BY <2>4 DEF NoneExpired
    <3>. QED BY <2>1, <3>1, WritesNothing, SeesTheSame, MoveKeepsExclusive
  <2>. QED BY <1>2, <2>2, <2>3, <2>4 DEF Begin
<1>3. ASSUME NEW p \in Processors, CloseExpired(p) PROVE Exclusive'
  <2>1. step[p] = "close" /\ Goto(p, "escalate") /\ UNCHANGED seen BY <1>3 DEF CloseExpired
  <2>2. PICK added \in {{}, {<<seen[p][1], "expire">>}} : Write(p, added)
    BY <1>3, WritesNothing DEF CloseExpired
  <2>3. \A t \in Transfers : <<t, "raise">> \notin added OBVIOUS
  <2>. QED BY <2>1, <2>2, <2>3, SeesTheSame, MoveKeepsExclusive
<1>4. ASSUME NEW p \in Processors, JudgeWaiting(p) PROVE Exclusive'
  <2>1. step[p] = "escalate" BY <1>4 DEF JudgeWaiting
  <2>2. CASE Goto(p, "commit") /\ UNCHANGED <<writes, seen>>
    BY <2>1, <2>2, WritesNothing, SeesTheSame, MoveKeepsExclusive
  <2>3. ASSUME NEW t \in Open(p), Write(p, {<<t, "extend escalation">>}), Goto(p, "commit"),
               UNCHANGED seen
        PROVE  Exclusive'
    <3> DEFINE added == {<<t, "extend escalation">>}
    <3>1. Write(p, added) /\ \A u \in Transfers : <<u, "raise">> \notin added BY <2>3
    <3> HIDE DEF added
    <3>. QED BY <2>1, <2>3, <3>1, SeesTheSame, MoveKeepsExclusive
  <2>4. ASSUME NEW t \in Open(p), Goto(p, "raise"), seen' = [seen EXCEPT ![p] = <<t, level[t]>>],
               UNCHANGED writes
        PROVE  Exclusive'
    <3>1. <<t, "expire">> \notin writes[p] BY DEF Open
    <3>2. \A u \in Transfers : <<u, "raise">> \notin writes[p] BY <2>1 DEF Inv, Raising
    <3>3. seen'[p][1] = t /\ \A q \in Processors \ {p} : step'[q] = step[q] /\ seen'[q] = seen[q]
      BY <2>4 DEF Goto, Inv, TypeOK
    <3>. QED BY <2>4, <3>1, <3>2, <3>3 DEF Exclusive
  <2>. QED BY <1>4, <2>2, <2>3, <2>4 DEF JudgeWaiting
<1>5. ASSUME NEW p \in Processors, Escalate(p) PROVE Exclusive'
  <2> DEFINE t == seen[p][1]
  <2>1. step[p] = "raise" /\ t \in Transfers BY <1>5 DEF Escalate, Inv, Selected
  <2>2. <<t, "expire">> \notin writes[p] BY <2>1 DEF Exclusive
  <2>3. \A u \in Transfers : <<u, "raise">> \notin writes[p] BY <2>1 DEF Inv, Raising
  <2>4. /\ step'[p] = "commit"
        /\ \A q \in Processors \ {p} : writes'[q] = writes[q] /\ step'[q] = step[q] /\ seen'[q] = seen[q]
        /\ writes'[p] = writes[p] \/ writes'[p] = writes[p] \cup {<<t, "raise">>}
    BY <1>5 DEF Escalate, Goto, Write, Inv, TypeOK
  <2> HIDE DEF t
  <2>5. \A u \in Transfers : <<u, "raise">> \in writes'[p] => <<u, "expire">> \notin writes'[p]
    BY <2>2, <2>3, <2>4
  <2>. QED BY <2>4, <2>5 DEF Exclusive
<1>6. ASSUME NEW p \in Processors, Commit(p) \/ Rest(p) PROVE Exclusive'
  <2>1. /\ writes'[p] = {}
        /\ \A q \in Processors \ {p} : writes'[q] = writes[q] /\ step'[q] = step[q] /\ seen'[q] = seen[q]
    BY <1>6 DEF Commit, Rest, Goto, Inv, TypeOK
  <2>. QED BY <2>1 DEF Exclusive
<1>7. ASSUME NEW p \in Processors, NEW to \in {"escalate", "commit", "send"}, Goto(p, to),
             UNCHANGED <<writes, seen>>
      PROVE  Exclusive'
  <2>1. \A q \in Processors : step'[q] = "raise" => step[q] = "raise"
    BY <1>7 DEF Goto, Inv, TypeOK
  <2>. QED BY <1>7, <2>1 DEF Exclusive
<1>8. ASSUME NEW p \in Processors, Look(p) \/ Tell(p) \/ RowFails(p) \/ Fails(p) PROVE Exclusive'
  <2>1. CASE Look(p) BY <1>6, <1>7, <2>1 DEF Look
  <2>2. CASE Tell(p) \/ Fails(p) BY <1>6, <2>2 DEF Tell, Fails
  <2>3. CASE RowFails(p) BY <1>7, <2>3 DEF RowFails
  <2>. QED BY <1>8, <2>1, <2>2, <2>3
<1>9. CASE UNCHANGED pass BY <1>1, <1>9 DEF pass
<1>10. CASE \/ DeleteContact \/ UNCHANGED vars
           \/ \E t \in Transfers :
                \/ Resume(t)
                \/ \E a \in Agents \cup {Nobody} : Create(t, a) \/ AssignAgentTransfer(t, a)
                \/ \E a \in Agents : PickNextTransfer(t, a) \/ LoadReturn(t, a) \/ Return(t, a)
                \/ \E deadline \in Deadlines : Passes(t, deadline)
  BY <1>9, <1>10 DEF vars, Create, Resume, AssignAgentTransfer, PickNextTransfer, LoadReturn,
                    Return, Passes, DeleteContact, Request
<1>. QED BY <1>2, <1>3, <1>4, <1>5, <1>6, <1>8, <1>10 DEF Next, Tick

LEMMA HandoverInit == Init => Promise!Init /\ HandoverInv
<1>. SUFFICES ASSUME Init PROVE Promise!Init /\ HandoverInv
  OBVIOUS
<1>1. Promise!Init BY DEF Init, Promise!Init, Telling
<1>2. OneOpen BY DEF Init, OneOpen, Active
<1>3. Exclusive BY DEF Init, Exclusive
<1>. QED BY <1>1, <1>2, <1>3 DEF HandoverInv

LEMMA HandoverStep ==
  ASSUME Inv, HandoverInv, [Next]_vars
  PROVE  Simulates /\ HandoverInv'
<1>1. ASSUME UNCHANGED <<status, agent, level, told, Telling>> PROVE Simulates /\ OneOpen'
  BY <1>1, OthersKeepOneOpen DEF HandoverInv, Simulates, Promise!vars
<1>2. ASSUME NEW t \in Transfers, NEW a \in Agents \cup {Nobody},
             Create(t, a) \/ AssignAgentTransfer(t, a)
      PROVE  Simulates /\ OneOpen'
  BY <1>2, CreateSimulates, RequestSimulates DEF HandoverInv
<1>3. ASSUME NEW t \in Transfers, NEW a \in Agents,
             PickNextTransfer(t, a) \/ LoadReturn(t, a) \/ Return(t, a)
      PROVE  Simulates /\ OneOpen'
  BY <1>1, <1>3, RequestSimulates, RequestUnseen DEF HandoverInv
<1>4. ASSUME NEW t \in Transfers, \/ Resume(t)
                                  \/ \E deadline \in Deadlines : Passes(t, deadline)
      PROVE  Simulates /\ OneOpen'
  BY <1>1, <1>4, RequestSimulates, RequestUnseen DEF HandoverInv
<1>5. ASSUME DeleteContact \/ UNCHANGED vars PROVE Simulates /\ OneOpen'
  <2>1. UNCHANGED <<status, agent, level, told, Telling>> BY <1>5, RequestUnseen
  <2>. QED BY <1>1, <2>1
<1>6. ASSUME NEW p \in Processors, Tick(p) \/ RowFails(p) \/ Fails(p)
      PROVE  Simulates /\ OneOpen'
  <2>1. CASE Begin(p) \/ CloseExpired(p) \/ JudgeWaiting(p) \/ Escalate(p) \/ RowFails(p)
    <3>1. UNCHANGED <<status, agent, level, told, Telling>> BY <2>1, PassUnseen
    <3>. QED BY <1>1, <3>1
  <2>2. CASE Commit(p) BY <2>2, CommitSimulates
  <2>3. CASE Tell(p) BY <2>3, TellSimulates DEF HandoverInv
  <2>4. CASE Look(p) BY <2>4, LookSimulates DEF HandoverInv
  <2>5. CASE Fails(p) BY <2>5, FailsSimulates DEF HandoverInv
  <2>. QED BY <1>6, <2>1, <2>2, <2>3, <2>4, <2>5 DEF Tick
<1>7. Simulates /\ OneOpen' BY <1>2, <1>3, <1>4, <1>5, <1>6 DEF Next
<1>. QED BY <1>7, ExclusiveNext DEF HandoverInv

\* The requests and the processors implement the handovers of a contact, for
\* any number of agents, instances, handovers and faults: one is open at a
\* time, what is closed stays as it is, no level is skipped, and the customer
\* is told once, and only what was so when somebody looked after the commit
\* (saveAndFinalizeTransferWithArbiter, ReturnAgentTransfersToQueue,
\* autoCloseExpiredTransfers, escalateTransfers).
THEOREM ImplementsHandoverHolds == Spec => ImplementsHandover
<1>1. Init => Inv /\ HandoverInv /\ Promise!Init BY InvInit, HandoverInit
<1>2. Inv /\ HandoverInv /\ [Next]_vars => Inv' /\ HandoverInv' /\ [Promise!Next]_(Promise!vars)
  BY InvNext, HandoverStep DEF Simulates
<1>. QED BY <1>1, <1>2, PTL DEF Spec, ImplementsHandover, Promise!Spec

=============================================================================
