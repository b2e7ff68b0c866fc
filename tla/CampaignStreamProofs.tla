------------------------ MODULE CampaignStreamProofs ------------------------
(***************************************************************************)
(* Safety of a campaign for any number of workers, recipients, generations *)
(* and faults.                                                             *)
(***************************************************************************)
EXTENDS CampaignStream, FiniteSetTheorems, TLAPS

\* The type invariant in four parts: the rows, the handlers, the workers with
\* the stream, and the histories.
RowsOK ==
    /\ campaign \in {"draft", "processing", "paused", "completed", "cancelled"}
    /\ gen \in 0..MaxGen
    /\ sent \in Nat /\ delivered \in Nat /\ read \in Nat /\ failed \in Nat
    /\ recipient \in [Recipients -> Statuses]
    /\ message \in [Recipients -> Statuses]
    /\ claim \in [Recipients -> Workers \cup {Nobody}]
    /\ linked \in [Recipients -> BOOLEAN]

HandlersOK ==
    /\ launch \in [Gens -> {"none", "starting", "retrying", "unstarting", "unretrying", "done"}]
    /\ batch \in [Gens -> SUBSET Recipients]
    /\ prior \in [Gens -> {"none", "draft", "paused", "completed"} \X Nat \X Nat \X Nat \X Nat]

StepsOK ==
    /\ pc \in [Workers -> {"idle", "admit", "prepare", "mirror", "release", "attempt",
                           "sending", "recover", "check", "complete", "ack"}]
    /\ at \in [Workers -> Jobs \cup {Nobody}]
    /\ \A w \in Workers : at[w] = Nobody <=> pc[w] = "idle"

OthersOK ==
    /\ entry \in [Jobs -> {"none", "new", "taken", "done"}]
    /\ ans \in [Workers -> {"none", "sent", "failed"}]
    /\ recovering \subseteq Workers
    /\ requests \in [Recipients -> Nat]
    /\ drift \subseteq {"restored", "skipped"}
    /\ faults \in 0..MaxFaults

\* A handler, an entry and a worker's job belong to a generation that has
\* begun, and a handler remembers what it began from.
Begun ==
    /\ \A g \in Gens : launch[g] # "none" =>
         g <= gen /\ (launch[g] # "done" => prior[g][1] # "none")
    /\ \A j \in Jobs : entry[j] # "none" => j[2] <= gen
    /\ \A w \in Workers : pc[w] # "idle" => at[w][2] <= gen

\* Nothing was sent to a recipient that nobody claimed.
Unclaimed ==
    \A r \in Recipients : recipient[r] = "pending" /\ claim[r] = Nobody => requests[r] = 0

\* A worker on its way to the request that still has the claim made it itself
\* and has sent nothing since; it sends only what is in the inbox.
Approaching ==
    \A w \in Workers :
        /\ pc[w] \in {"mirror", "release", "attempt"} /\ Mine(w) => requests[at[w][1]] = 0
        /\ pc[w] = "attempt" /\ Mine(w) => linked[at[w][1]]

\* A worker that makes its request, or makes up for it, with the claim it made
\* is the one that sent.
Sending ==
    \A w \in Workers :
        /\ pc[w] = "sending" => Mine(w)
        /\ pc[w] \in {"sending", "recover"} /\ Mine(w) => requests[at[w][1]] = 1
        /\ pc[w] = "recover" => ans[w] # "none"

\* A recipient whose status is not its message's lags behind it: a receipt
\* advanced the message alone.
Behind ==
    \A r \in Recipients : recipient[r] # message[r] =>
        recipient[r] # "pending" /\ Rank[recipient[r]] < Rank[message[r]]

\* The inductive invariant.
Inv ==
    /\ RowsOK
    /\ HandlersOK
    /\ StepsOK
    /\ OthersOK
    /\ Begun
    /\ Unclaimed
    /\ Approaching
    /\ Sending
    /\ SentOnce
    /\ SentWhileRunning
    /\ Behind

-----------------------------------------------------------------------------

LEMMA TypeParts == RowsOK /\ HandlersOK /\ StepsOK /\ OthersOK => TypeOK

<1>. QED
  BY DEF RowsOK, HandlersOK, StepsOK, OthersOK, TypeOK

\* A worker that is not idle has the job of a recipient and a generation.
LEMMA JobsArePairs ==
  ASSUME Inv
  PROVE  /\ \A j \in Jobs : j[1] \in Recipients /\ j[2] \in Gens
         /\ MaxGen \in Nat /\ Gens = 1..MaxGen /\ MaxFaults \in Nat
         /\ Nobody \notin Workers /\ Nobody \notin Jobs
         /\ \A w \in Workers : pc[w] # "idle" =>
              at[w] \in Jobs /\ at[w][1] \in Recipients /\ at[w][2] \in Gens

<1>1. \A w \in Workers : pc[w] # "idle" => at[w] \in Jobs
  BY DEF Inv, StepsOK
<1>2. \A j \in Jobs : j[1] \in Recipients /\ j[2] \in Gens
  BY DEF Jobs
<1>. QED
  BY <1>1, <1>2, CampaignAssumption DEF Jobs, Gens

\* The outcome of a recipient moves one counter.
LEMMA SettleKeepsRows ==
  ASSUME RowsOK, NEW r \in Recipients, NEW to \in {"sent", "failed"}, Settle(r, to)
  PROVE  /\ sent' \in Nat /\ delivered' \in Nat /\ read' \in Nat /\ failed' \in Nat
         /\ recipient' \in [Recipients -> Statuses] /\ message' \in [Recipients -> Statuses]

<1>1. recipient' \in [Recipients -> Statuses] /\ message' \in [Recipients -> Statuses]
  BY DEF RowsOK, Settle, Statuses
<1>2. sent' \in Nat /\ delivered' \in Nat /\ read' \in Nat /\ failed' \in Nat
  BY DEF RowsOK, Settle
<1>. QED
  BY <1>1, <1>2

\* It is that of the last message as well.
LEMMA SettleKeepsBehind ==
  ASSUME Inv, NEW r \in Recipients, NEW to, Settle(r, to)
  PROVE  Behind'

<1>1. \A q \in Recipients : /\ recipient'[q] = IF q = r THEN to ELSE recipient[q]
                            /\ message'[q] = IF q = r THEN to ELSE message[q]
  BY DEF Inv, RowsOK, Settle
<1>. QED
  BY <1>1 DEF Inv, Behind

\* A new generation is later than every other.
LEMMA BeginKeepsBegun ==
  ASSUME Inv, NEW step, step # "none", NEW to, Begin(step, to), UNCHANGED <<pc, at>>
  PROVE  Begun'

<1>1. gen \in Nat /\ gen + 1 \in Gens /\ gen' = gen + 1 /\ campaign # "none"
  BY JobsArePairs DEF Inv, RowsOK, Begin
<1>2. ASSUME NEW g \in Gens, launch'[g] # "none"
      PROVE  g <= gen' /\ (launch'[g] # "done" => prior'[g][1] # "none")
  <2>1. CASE g = gen + 1
    BY <1>1, <2>1 DEF Inv, HandlersOK, Begin
  <2>2. CASE g # gen + 1
    <3>1. launch'[g] = launch[g] /\ prior'[g] = prior[g] /\ launch[g] # "none"
      BY <1>2, <2>2 DEF Inv, HandlersOK, Begin
    <3>. QED
      BY <1>1, <3>1, JobsArePairs DEF Inv, Begun
  <2>. QED
    BY <2>1, <2>2
<1>3. \A j \in Jobs : entry'[j] # "none" => j[2] <= gen'
  BY <1>1, JobsArePairs DEF Inv, Begun, Begin
<1>4. \A w \in Workers : pc'[w] # "idle" => at'[w][2] <= gen'
  BY <1>1, JobsArePairs DEF Inv, Begun
<1>. QED
  BY <1>2, <1>3, <1>4 DEF Begun

LEMMA KeptByStartCampaign ==
  ASSUME Inv, StartCampaign
  PROVE  Inv'

<1>1. RowsOK'
  BY JobsArePairs DEF Inv, RowsOK, StartCampaign, Begin, Aside, counters, results,
      rows
<1>2. HandlersOK'
  BY DEF Inv, RowsOK, HandlersOK, StartCampaign, Begin, Aside, CampaignFree,
      With
<1>3. StepsOK'
  BY DEF Inv, StepsOK, StartCampaign, Begin, Aside, minds
<1>4. OthersOK'
  BY DEF Inv, OthersOK, StartCampaign, Begin, Aside, minds
<1>5. Begun'
  BY BeginKeepsBegun DEF StartCampaign, Aside, minds
<1>6. Unclaimed'
  BY DEF Inv, StartCampaign, Begin, Aside, rows, Unclaimed
<1>7. Approaching'
  BY DEF Inv, StartCampaign, Begin, Aside, rows, minds, Approaching, Mine
<1>8. Sending'
  BY DEF Inv, StartCampaign, Begin, Aside, rows, minds, Sending, Mine
<1>9. SentOnce'
  BY DEF Inv, StartCampaign, Begin, Aside, rows, SentOnce
<1>10. SentWhileRunning'
  BY DEF Inv, StartCampaign, Begin, Aside, rows, minds, SentWhileRunning,
      Mine
<1>11. Behind'
  BY DEF Inv, Behind, StartCampaign, rows, results
<1>. QED
  BY <1>1, <1>2, <1>3, <1>4, <1>5, <1>6, <1>7, <1>8, <1>9, <1>10, <1>11 DEF Inv

LEMMA KeptByRetryFailed ==
  ASSUME Inv, RetryFailed
  PROVE  Inv'

<1>1. RowsOK'
  <2>1. Cardinality(With({"failed"})) \in Nat
    <3>1. With({"failed"}) \subseteq Recipients
      BY DEF With
    <3>. QED
      BY <3>1, CampaignAssumption, FS_Subset, FS_CardinalityType
  <2>2. failed' \in Nat
    BY <2>1 DEF Inv, RowsOK, RetryFailed
  <2>3. /\ recipient' \in [Recipients -> Statuses] /\ message' \in [Recipients -> Statuses]
        /\ claim' \in [Recipients -> Workers \cup {Nobody}]
    BY DEF Inv, RowsOK, RetryFailed, Statuses
  <2>4. campaign' = "processing" /\ gen' \in 0..MaxGen
    BY JobsArePairs DEF Inv, RowsOK, RetryFailed, Begin
  <2>5. UNCHANGED <<linked, sent, delivered, read>>
    BY DEF RetryFailed
  <2>. QED
    BY <2>2, <2>3, <2>4, <2>5 DEF Inv, RowsOK
<1>2. HandlersOK'
  BY DEF Inv, RowsOK, HandlersOK, RetryFailed, Begin, With
<1>3. StepsOK'
  BY DEF Inv, StepsOK, RetryFailed, Begin, minds
<1>4. OthersOK'
  BY DEF Inv, OthersOK, RetryFailed, Begin, minds
<1>5. Begun'
  BY BeginKeepsBegun DEF RetryFailed, minds
<1>6. Unclaimed'
  BY DEF Inv, RetryFailed, Begin, Unclaimed
<1>7. Approaching'
  BY JobsArePairs DEF Inv, RetryFailed, Begin, minds, Approaching, Mine
<1>8. Sending'
  <2>1. \A w \in Workers : pc[w] # "sending"
    BY DEF RetryFailed, CampaignFree
  <2>2. \A r \in Recipients : claim'[r] # Nobody =>
          recipient'[r] = recipient[r] /\ claim'[r] = claim[r] /\ requests'[r] = requests[r]
    BY DEF Inv, RowsOK, OthersOK, RetryFailed
  <2>3. UNCHANGED <<pc, at, ans>>
    BY DEF RetryFailed, minds
  <2>. QED
    BY <2>1, <2>2, <2>3, JobsArePairs DEF Inv, Sending, Mine
<1>9. SentOnce'
  BY DEF Inv, RetryFailed, Begin, SentOnce, Counts
<1>10. SentWhileRunning'
  BY DEF Inv, RetryFailed, Begin, minds, SentWhileRunning, Mine
<1>11. Behind'
  <2>1. \A r \in Recipients :
          \/ recipient'[r] = recipient[r] /\ message'[r] = message[r]
          \/ recipient'[r] = "pending" /\ message'[r] = "pending"
    BY DEF Inv, RowsOK, RetryFailed
  <2>. QED
    BY <2>1 DEF Inv, Behind
<1>. QED
  BY <1>1, <1>2, <1>3, <1>4, <1>5, <1>6, <1>7, <1>8, <1>9, <1>10, <1>11 DEF Inv

LEMMA KeptByEnqueue ==
  ASSUME Inv, NEW g \in Gens, Enqueue(g)
  PROVE  Inv'

<1>1. RowsOK'
  BY DEF Inv, RowsOK, Enqueue, Aside, counters, results, rows
<1>2. HandlersOK'
  BY DEF Inv, HandlersOK, NoPrior, Return, Enqueue, Aside
<1>3. StepsOK'
  BY DEF Inv, StepsOK, Enqueue, Aside, minds
<1>4. OthersOK'
  BY DEF Inv, OthersOK, Enqueue, Enqueued, Aside, minds
<1>5. Begun'
  BY DEF Inv, HandlersOK, NoPrior, Return, Enqueue, Enqueued, Aside, minds, Begun
<1>6. Unclaimed'
  BY DEF Inv, Enqueue, Aside, rows, Unclaimed
<1>7. Approaching'
  BY DEF Inv, Enqueue, Aside, rows, minds, Approaching, Mine
<1>8. Sending'
  BY DEF Inv, Enqueue, Aside, rows, minds, Sending, Mine
<1>9. SentOnce'
  BY DEF Inv, Enqueue, Aside, rows, SentOnce
<1>10. SentWhileRunning'
  BY DEF Inv, Enqueue, Aside, rows, minds, SentWhileRunning, Mine
<1>11. Behind'
  BY DEF Inv, Behind, Enqueue, rows, results
<1>. QED
  BY <1>1, <1>2, <1>3, <1>4, <1>5, <1>6, <1>7, <1>8, <1>9, <1>10, <1>11 DEF Inv

LEMMA KeptByEnqueueFails ==
  ASSUME Inv, NEW g \in Gens, EnqueueFails(g)
  PROVE  Inv'

<1>1. RowsOK'
  BY DEF Inv, RowsOK, EnqueueFails, Aside, counters, results, rows
<1>2. HandlersOK'
  BY DEF Inv, HandlersOK, EnqueueFails, Aside
<1>3. StepsOK'
  BY DEF Inv, StepsOK, EnqueueFails, Aside, minds
<1>4. OthersOK'
  <2>1. entry' \in [Jobs -> {"none", "new", "taken", "done"}]
    BY DEF Inv, OthersOK, EnqueueFails, Enqueued
  <2>2. faults' \in 0..MaxFaults
    BY JobsArePairs DEF Inv, OthersOK, EnqueueFails
  <2>. QED
    BY <2>1, <2>2 DEF Inv, OthersOK, EnqueueFails, Aside, minds
<1>5. Begun'
  <2>1. \A j \in Jobs : entry'[j] # "none" => entry[j] # "none" \/ j[2] = g
    BY DEF EnqueueFails, Enqueued
  <2>2. g <= gen /\ UNCHANGED <<gen, prior, pc, at>>
    BY DEF Inv, Begun, EnqueueFails, Aside, minds
  <2>3. \A h \in Gens : launch'[h] # "none" =>
          launch[h] # "none" /\ (launch'[h] # "done" => launch[h] # "done")
    BY DEF Inv, HandlersOK, EnqueueFails
  <2>. QED
    BY <2>1, <2>2, <2>3 DEF Inv, Begun
<1>6. Unclaimed'
  BY DEF Inv, EnqueueFails, Aside, rows, Unclaimed
<1>7. Approaching'
  BY DEF Inv, EnqueueFails, Aside, rows, minds, Approaching, Mine
<1>8. Sending'
  BY DEF Inv, EnqueueFails, Aside, rows, minds, Sending, Mine
<1>9. SentOnce'
  BY DEF Inv, EnqueueFails, Aside, rows, SentOnce
<1>10. SentWhileRunning'
  BY DEF Inv, EnqueueFails, Aside, rows, minds, SentWhileRunning, Mine
<1>11. Behind'
  BY DEF Inv, Behind, EnqueueFails, rows, results
<1>. QED
  BY <1>1, <1>2, <1>3, <1>4, <1>5, <1>6, <1>7, <1>8, <1>9, <1>10, <1>11 DEF Inv

LEMMA KeptByUnstart ==
  ASSUME Inv, NEW g \in Gens, Unstart(g)
  PROVE  Inv'

<1>1. RowsOK'
  <2>1. prior[g][1] \in {"draft", "paused", "completed"}
    BY DEF Inv, HandlersOK, Begun, Unstart
  <2>. QED
    BY <2>1 DEF Inv, RowsOK, Unstart, counters, results, rows
<1>2. HandlersOK'
  BY DEF Inv, HandlersOK, NoPrior, Return, Unstart, Aside
<1>3. StepsOK'
  BY DEF Inv, StepsOK, Unstart, Aside, minds
<1>4. OthersOK'
  BY DEF Inv, OthersOK, Unstart, Aside, minds
<1>5. Begun'
  BY DEF Inv, HandlersOK, Return, Unstart, Aside, minds, Begun
<1>6. Unclaimed'
  BY DEF Inv, Unstart, Aside, rows, Unclaimed
<1>7. Approaching'
  BY DEF Inv, Unstart, Aside, rows, minds, Approaching, Mine
<1>8. Sending'
  BY DEF Inv, Unstart, Aside, rows, minds, Sending, Mine
<1>9. SentOnce'
  BY DEF Inv, Unstart, Aside, rows, SentOnce
<1>10. SentWhileRunning'
  BY DEF Inv, Unstart, Latest, CampaignFree, Aside, rows, minds,
      SentWhileRunning, Mine
<1>11. Behind'
  BY DEF Inv, Behind, Unstart, rows, results
<1>. QED
  BY <1>1, <1>2, <1>3, <1>4, <1>5, <1>6, <1>7, <1>8, <1>9, <1>10, <1>11 DEF Inv

LEMMA KeptByUnretry ==
  ASSUME Inv, NEW g \in Gens, Unretry(g)
  PROVE  Inv'

<1>1. RowsOK'
  <2>1. prior[g][1] \in {"draft", "paused", "completed"}
    BY DEF Inv, HandlersOK, Begun, Unretry
  <2>2. /\ prior[g][2] \in Nat /\ prior[g][3] \in Nat
        /\ prior[g][4] \in Nat /\ prior[g][5] \in Nat
    BY DEF Inv, HandlersOK
  <2>3. /\ campaign' \in {campaign, prior[g][1]}
        /\ sent' \in Nat /\ delivered' \in Nat /\ read' \in Nat /\ failed' \in Nat
    BY <2>2 DEF Inv, RowsOK, Unretry, counters, results
  <2>4. recipient' \in [Recipients -> Statuses] /\ message' \in [Recipients -> Statuses]
    BY DEF Inv, RowsOK, Unretry, Put, Statuses, results
  <2>. QED
    BY <2>1, <2>3, <2>4 DEF Inv, RowsOK, Unretry
<1>2. HandlersOK'
  BY DEF Inv, HandlersOK, NoPrior, Return, Unretry, Aside
<1>3. StepsOK'
  BY DEF Inv, StepsOK, Unretry, Aside, minds
<1>4. OthersOK'
  BY DEF Inv, OthersOK, Unretry, Aside, minds
<1>5. Begun'
  BY DEF Inv, HandlersOK, Return, Unretry, Aside, minds, Begun
<1>6. Unclaimed'
  BY DEF Inv, Unretry, Put, Aside, Unclaimed
<1>7. Approaching'
  BY JobsArePairs DEF Inv, Unretry, Put, Aside, minds, Approaching, Mine
<1>8. Sending'
  BY JobsArePairs DEF Inv, Unretry, Put, CampaignFree, Aside, minds, Sending, Mine
<1>9. SentOnce'
  BY DEF Inv, Unretry, Put, Aside, SentOnce, Counts
<1>10. SentWhileRunning'
  BY DEF Inv, Unretry, Put, Latest, CampaignFree, Aside, minds, SentWhileRunning,
      Mine
<1>11. Behind'
  <2>1. \A r \in Recipients :
          \/ recipient'[r] = recipient[r] /\ message'[r] = message[r]
          \/ recipient'[r] = "failed" /\ message'[r] = "failed"
    BY DEF Inv, RowsOK, Unretry, Put, results
  <2>. QED
    BY <2>1 DEF Inv, Behind
<1>. QED
  BY <1>1, <1>2, <1>3, <1>4, <1>5, <1>6, <1>7, <1>8, <1>9, <1>10, <1>11 DEF Inv

LEMMA KeptByPauseCampaign ==
  ASSUME Inv, PauseCampaign
  PROVE  Inv'

<1>1. RowsOK'
  BY DEF Inv, RowsOK, PauseCampaign, Turn, Aside, counters, results, rows
<1>2. HandlersOK'
  BY DEF Inv, HandlersOK, PauseCampaign, Turn, Aside, handlers
<1>3. StepsOK'
  BY DEF Inv, StepsOK, PauseCampaign, Turn, Aside, minds
<1>4. OthersOK'
  BY DEF Inv, OthersOK, PauseCampaign, Turn, Aside, minds
<1>5. Begun'
  BY DEF Inv, PauseCampaign, Turn, Aside, handlers, minds, Begun
<1>6. Unclaimed'
  BY DEF Inv, PauseCampaign, Turn, Aside, rows, Unclaimed
<1>7. Approaching'
  BY DEF Inv, PauseCampaign, Turn, Aside, rows, minds, Approaching, Mine
<1>8. Sending'
  BY DEF Inv, PauseCampaign, Turn, Aside, rows, minds, Sending, Mine
<1>9. SentOnce'
  BY DEF Inv, PauseCampaign, Turn, Aside, rows, SentOnce
<1>10. SentWhileRunning'
  BY DEF Inv, PauseCampaign, Turn, CampaignFree, Aside, rows, minds,
      SentWhileRunning, Mine
<1>11. Behind'
  BY DEF Inv, Behind, PauseCampaign, Turn, rows, results
<1>. QED
  BY <1>1, <1>2, <1>3, <1>4, <1>5, <1>6, <1>7, <1>8, <1>9, <1>10, <1>11 DEF Inv

LEMMA KeptByCancelCampaign ==
  ASSUME Inv, CancelCampaign
  PROVE  Inv'

<1>1. RowsOK'
  BY DEF Inv, RowsOK, CancelCampaign, Turn, Aside, counters, results, rows
<1>2. HandlersOK'
  BY DEF Inv, HandlersOK, CancelCampaign, Turn, Aside, handlers
<1>3. StepsOK'
  BY DEF Inv, StepsOK, CancelCampaign, Turn, Aside, minds
<1>4. OthersOK'
  BY DEF Inv, OthersOK, CancelCampaign, Turn, Aside, minds
<1>5. Begun'
  BY DEF Inv, CancelCampaign, Turn, Aside, handlers, minds, Begun
<1>6. Unclaimed'
  BY DEF Inv, CancelCampaign, Turn, Aside, rows, Unclaimed
<1>7. Approaching'
  BY DEF Inv, CancelCampaign, Turn, Aside, rows, minds, Approaching, Mine
<1>8. Sending'
  BY DEF Inv, CancelCampaign, Turn, Aside, rows, minds, Sending, Mine
<1>9. SentOnce'
  BY DEF Inv, CancelCampaign, Turn, Aside, rows, SentOnce
<1>10. SentWhileRunning'
  BY DEF Inv, CancelCampaign, Turn, CampaignFree, Aside, rows, minds,
      SentWhileRunning, Mine
<1>11. Behind'
  BY DEF Inv, Behind, CancelCampaign, Turn, rows, results
<1>. QED
  BY <1>1, <1>2, <1>3, <1>4, <1>5, <1>6, <1>7, <1>8, <1>9, <1>10, <1>11 DEF Inv

LEMMA KeptByReceipt ==
  ASSUME Inv, NEW r \in Recipients, Receipt(r)
  PROVE  Inv'

<1>1. PICK to \in {"delivered", "read", "failed"} :
        /\ Rank[message[r]] < Rank[to]
        /\ message' = [message EXCEPT ![r] = to]
        /\ Projected(r, to) \/ Unprojected
  BY DEF Receipt
<1>2. message[r] # "pending" /\ UNCHANGED <<campaign, gen, claim, linked, handlers, entry, minds, requests>>
  BY DEF Receipt, Aside
<1>3. /\ recipient[r] \in Counts["sent"] /\ message[r] \in Counts["sent"]
      /\ \/ recipient' = recipient
         \/ recipient' = [recipient EXCEPT ![r] = to] /\ CampaignFree
  <2>1. recipient[r] \in Statuses /\ message[r] \in Statuses /\ message[r] # "failed"
    BY <1>1 DEF Inv, RowsOK, Rank, Statuses
  <2>2. recipient[r] \notin {"pending", "failed"}
    BY <1>2, <2>1 DEF Inv, Behind, Rank, Statuses
  <2>. QED
    BY <1>1, <1>2, <2>1, <2>2 DEF Projected, Unprojected, Counts, Statuses
<1>4. \A w \in Workers : pc[w] # "idle" /\ Mine(w)' => Mine(w)
  BY <1>1, <1>2, <1>3, JobsArePairs DEF Inv, RowsOK, minds, Mine, Counts
<1>5. RowsOK'
  <2>1. recipient' \in [Recipients -> Statuses] /\ message' \in [Recipients -> Statuses]
    BY <1>1, <1>3 DEF Inv, RowsOK, Statuses
  <2>2. sent' \in Nat /\ delivered' \in Nat /\ read' \in Nat /\ failed' \in Nat
    <3>1. ASSUME NEW count \in Nat, NEW status \in {"sent", "delivered", "read", "failed"}
          PROVE  Moved(count, status, message[r], to) \in Nat
      BY <3>1 DEF Moved
    <3>2. CASE Projected(r, to)
      BY <3>1, <3>2 DEF Inv, RowsOK, Projected
    <3>3. CASE Unprojected
      BY <3>3 DEF Inv, RowsOK, Unprojected, counters
    <3>. QED
      BY <1>1, <3>2, <3>3
  <2>. QED
    BY <1>2, <2>1, <2>2 DEF Inv, RowsOK
<1>6. HandlersOK' /\ StepsOK'
  BY <1>2 DEF Inv, HandlersOK, StepsOK, handlers, minds
<1>7. OthersOK'
  <2>1. drift' \subseteq {"restored", "skipped"}
    BY <1>1 DEF Inv, OthersOK, Projected, Unprojected
  <2>2. faults' \in 0..MaxFaults
    BY <1>1, JobsArePairs DEF Inv, OthersOK, Projected, Unprojected
  <2>. QED
    BY <1>2, <2>1, <2>2 DEF Inv, OthersOK, minds
<1>8. Begun'
  BY <1>2 DEF Inv, handlers, minds, Begun
<1>9. Unclaimed'
  BY <1>2, <1>3 DEF Inv, RowsOK, Unclaimed
<1>10. Approaching'
  BY <1>2, <1>4 DEF Inv, minds, Approaching
<1>11. Sending' /\ SentWhileRunning'
  <2>1. \A w \in Workers : pc[w] = "sending" => Mine(w)'
    BY <1>2, <1>3 DEF Inv, Sending, CampaignFree, minds, Mine
  <2>. QED
    BY <1>2, <1>4, <2>1 DEF Inv, Sending, SentWhileRunning, minds
<1>12. SentOnce'
  BY <1>2, <1>3 DEF Inv, RowsOK, SentOnce
<1>13. Behind'
  <2>1. ASSUME NEW q \in Recipients, recipient'[q] # message'[q]
        PROVE  recipient'[q] # "pending" /\ Rank[recipient'[q]] < Rank[message'[q]]
    <3>1. CASE q # r
      BY <1>1, <1>3, <2>1, <3>1 DEF Inv, RowsOK, Behind
    <3>2. CASE q = r
      <4>1. message'[r] = to /\ recipient'[r] = recipient[r]
        BY <1>1, <1>3, <2>1, <3>2 DEF Inv, RowsOK
      <4>2. recipient[r] = message[r] \/ Rank[recipient[r]] < Rank[message[r]]
        BY DEF Inv, Behind
      <4>. QED
        BY <1>1, <1>3, <3>2, <4>1, <4>2 DEF Counts, Rank
    <3>. QED
      BY <3>1, <3>2
  <2>. QED
    BY <2>1 DEF Behind
<1>. QED
  BY <1>5, <1>6, <1>7, <1>8, <1>9, <1>10, <1>11, <1>12, <1>13 DEF Inv

LEMMA KeptByRead ==
  ASSUME Inv, NEW w \in Workers, Read(w)
  PROVE  Inv'

<1>1. RowsOK'
  BY DEF Inv, RowsOK, Read, Take, Stream, counters, results, rows
<1>2. HandlersOK'
  BY DEF Inv, HandlersOK, Read, Take, Stream, handlers
<1>3. StepsOK'
  BY JobsArePairs DEF Inv, StepsOK, Read, Take, Stream, Goto
<1>4. OthersOK'
  BY DEF Inv, OthersOK, Read, Take, Stream, history
<1>5. Begun'
  BY DEF Inv, StepsOK, Read, Take, Stream, Goto, handlers, Begun
<1>6. Unclaimed'
  BY DEF Inv, Read, Take, Stream, rows, history, Unclaimed
<1>7. Approaching'
  BY DEF Inv, Read, Take, Stream, Goto, rows, history, Approaching, Mine
<1>8. Sending'
  BY DEF Inv, Read, Take, Stream, Goto, rows, history, Sending, Mine
<1>9. SentOnce'
  BY DEF Inv, Read, Take, Stream, rows, history, SentOnce
<1>10. SentWhileRunning'
  BY DEF Inv, Read, Take, Stream, Goto, rows, SentWhileRunning, Mine
<1>11. Behind'
  BY DEF Inv, Behind, Read, Take, Stream, rows, results
<1>. QED
  BY <1>1, <1>2, <1>3, <1>4, <1>5, <1>6, <1>7, <1>8, <1>9, <1>10, <1>11 DEF Inv

LEMMA KeptByReclaim ==
  ASSUME Inv, NEW w \in Workers, Reclaim(w)
  PROVE  Inv'

<1>1. RowsOK'
  BY DEF Inv, RowsOK, Reclaim, Take, Stream, counters, results, rows
<1>2. HandlersOK'
  BY DEF Inv, HandlersOK, Reclaim, Take, Stream, handlers
<1>3. StepsOK'
  BY JobsArePairs DEF Inv, StepsOK, Reclaim, Take, Stream, Goto
<1>4. OthersOK'
  BY JobsArePairs DEF Inv, OthersOK, Reclaim, Take, Stream, history
<1>5. Begun'
  BY DEF Inv, StepsOK, Reclaim, Take, Stream, Goto, handlers, Begun
<1>6. Unclaimed'
  BY DEF Inv, Reclaim, Take, Stream, rows, history, Unclaimed
<1>7. Approaching'
  BY DEF Inv, Reclaim, Take, Stream, Goto, rows, history, Approaching, Mine
<1>8. Sending'
  BY DEF Inv, Reclaim, Take, Stream, Goto, rows, history, Sending, Mine
<1>9. SentOnce'
  BY DEF Inv, Reclaim, Take, Stream, rows, history, SentOnce
<1>10. SentWhileRunning'
  BY DEF Inv, Reclaim, Take, Stream, Goto, rows, SentWhileRunning, Mine
<1>11. Behind'
  BY DEF Inv, Behind, Reclaim, Take, Stream, rows, results
<1>. QED
  BY <1>1, <1>2, <1>3, <1>4, <1>5, <1>6, <1>7, <1>8, <1>9, <1>10, <1>11 DEF Inv

LEMMA KeptByAck ==
  ASSUME Inv, NEW w \in Workers, Ack(w)
  PROVE  Inv'

<1>1. RowsOK'
  BY DEF Inv, RowsOK, Ack, counters, results, rows
<1>2. HandlersOK'
  BY DEF Inv, HandlersOK, Ack, handlers
<1>3. StepsOK'
  BY DEF Inv, StepsOK, Ack, Leave, Goto
<1>4. OthersOK'
  BY DEF Inv, OthersOK, Ack, Leave, history
<1>5. Begun'
  BY DEF Inv, StepsOK, Ack, Leave, Goto, handlers, Begun
<1>6. Unclaimed'
  BY DEF Inv, Ack, rows, history, Unclaimed
<1>7. Approaching'
  BY DEF Inv, Ack, Leave, Goto, rows, history, Approaching, Mine
<1>8. Sending'
  BY DEF Inv, Ack, Leave, Goto, rows, history, Sending, Mine
<1>9. SentOnce'
  BY DEF Inv, Ack, rows, history, SentOnce
<1>10. SentWhileRunning'
  BY DEF Inv, Ack, Leave, Goto, rows, SentWhileRunning, Mine
<1>11. Behind'
  BY DEF Inv, Behind, Ack, rows, results
<1>. QED
  BY <1>1, <1>2, <1>3, <1>4, <1>5, <1>6, <1>7, <1>8, <1>9, <1>10, <1>11 DEF Inv

LEMMA KeptByRestart ==
  ASSUME Inv, NEW w \in Workers, Restart(w)
  PROVE  Inv'

<1>1. RowsOK'
  BY DEF Inv, RowsOK, Restart, Stream, counters, results, rows
<1>2. HandlersOK'
  BY DEF Inv, HandlersOK, Restart, Stream, handlers
<1>3. StepsOK'
  BY DEF Inv, StepsOK, Restart, Stream
<1>4. OthersOK'
  BY DEF Inv, OthersOK, Restart, Stream, history
<1>5. Begun'
  BY DEF Inv, Restart, Stream, handlers, Begun
<1>6. Unclaimed'
  BY DEF Inv, Restart, Stream, rows, history, Unclaimed
<1>7. Approaching'
  BY DEF Inv, Restart, Stream, rows, history, Approaching, Mine
<1>8. Sending'
  BY DEF Inv, Restart, Stream, rows, history, Sending, Mine
<1>9. SentOnce'
  BY DEF Inv, Restart, Stream, rows, history, SentOnce
<1>10. SentWhileRunning'
  BY DEF Inv, Restart, Stream, rows, SentWhileRunning, Mine
<1>11. Behind'
  BY DEF Inv, Behind, Restart, Stream, rows, results
<1>. QED
  BY <1>1, <1>2, <1>3, <1>4, <1>5, <1>6, <1>7, <1>8, <1>9, <1>10, <1>11 DEF Inv

LEMMA KeptByAdmit ==
  ASSUME Inv, NEW w \in Workers, Admit(w)
  PROVE  Inv'

<1>1. RowsOK'
  <2>1. CASE AdmitLate(w) \/ AdmitGo(w)
    BY <2>1 DEF Inv, RowsOK, Admit, AdmitLate, AdmitGo, Apart, counters, results, rows
  <2>2. CASE AdmitRefused(w)
    BY <2>2, JobsArePairs, SettleKeepsRows DEF Inv, RowsOK, Admit, AdmitRefused, Apart, counters, results
  <2>. QED
    BY <2>1, <2>2 DEF Admit
<1>2. HandlersOK'
  <2>1. CASE AdmitLate(w)
    BY <2>1 DEF Inv, HandlersOK, Admit, Apart, handlers, AdmitLate
  <2>2. CASE AdmitGo(w)
    BY <2>2 DEF Inv, HandlersOK, Admit, Apart, handlers, AdmitGo
  <2>3. CASE AdmitRefused(w)
    BY <2>3 DEF Inv, HandlersOK, Admit, Apart, handlers, AdmitRefused
  <2>. QED
    BY <2>1, <2>2, <2>3 DEF Admit
<1>3. StepsOK'
  <2>1. CASE AdmitLate(w)
    BY <2>1 DEF Inv, StepsOK, Admit, Apart, Goto, AdmitLate
  <2>2. CASE AdmitGo(w)
    BY <2>2 DEF Inv, StepsOK, Admit, Apart, Goto, AdmitGo
  <2>3. CASE AdmitRefused(w)
    BY <2>3 DEF Inv, StepsOK, Admit, Apart, Goto, AdmitRefused
  <2>. QED
    BY <2>1, <2>2, <2>3 DEF Admit
<1>4. OthersOK'
  <2>1. CASE AdmitLate(w)
    BY <2>1 DEF Inv, OthersOK, Admit, Apart, AdmitLate
  <2>2. CASE AdmitGo(w)
    BY <2>2 DEF Inv, OthersOK, Admit, Apart, AdmitGo
  <2>3. CASE AdmitRefused(w)
    BY <2>3 DEF Inv, OthersOK, Admit, Apart, AdmitRefused
  <2>. QED
    BY <2>1, <2>2, <2>3 DEF Admit
<1>5. Begun'
  <2>1. CASE AdmitLate(w)
    BY <2>1 DEF Inv, Admit, Apart, Goto, handlers, AdmitLate, Begun
  <2>2. CASE AdmitGo(w)
    BY <2>2 DEF Inv, Admit, Apart, Goto, handlers, AdmitGo, Begun
  <2>3. CASE AdmitRefused(w)
    BY <2>3 DEF Inv, Admit, Apart, Goto, handlers, AdmitRefused, Begun
  <2>. QED
    BY <2>1, <2>2, <2>3 DEF Admit
<1>6. Unclaimed'
  <2>1. CASE AdmitLate(w)
    BY <2>1 DEF Inv, Admit, Apart, rows, AdmitLate, Unclaimed
  <2>2. CASE AdmitGo(w)
    BY <2>2 DEF Inv, Admit, Apart, rows, AdmitGo, Unclaimed
  <2>3. CASE AdmitRefused(w)
    BY <2>3 DEF Inv, RowsOK, Admit, Apart, rows, AdmitRefused, Settle,
        Unclaimed
  <2>. QED
    BY <2>1, <2>2, <2>3 DEF Admit
<1>7. Approaching'
  <2>1. \A v \in Workers : pc[v] # "idle" /\ Mine(v)' => Mine(v)
    BY JobsArePairs DEF Inv, RowsOK, Admit, AdmitLate, AdmitGo, AdmitRefused, Apart, Settle,
                        Mine, rows
  <2>2. pc'[w] \in {"ack", "prepare"} /\ \A v \in Workers \ {w} : pc'[v] = pc[v]
    BY DEF Inv, StepsOK, Admit, AdmitLate, AdmitGo, AdmitRefused, Goto
  <2>3. UNCHANGED <<linked, requests, at>>
    BY DEF Admit, AdmitLate, AdmitGo, AdmitRefused, Apart, rows
  <2>. QED
    BY <2>1, <2>2, <2>3 DEF Inv, Approaching
<1>8. Sending'
  <2>1. CASE AdmitLate(w)
    BY <2>1 DEF Inv, Admit, Apart, Goto, rows, AdmitLate, Sending, Mine
  <2>2. CASE AdmitGo(w)
    BY <2>2 DEF Inv, Admit, Apart, Goto, rows, AdmitGo, Sending, Mine
  <2>3. CASE AdmitRefused(w)
    BY <2>3, JobsArePairs DEF Inv, RowsOK, Admit, Apart, Goto, rows,
        AdmitRefused, Settle, Sending, Mine
  <2>. QED
    BY <2>1, <2>2, <2>3 DEF Admit
<1>9. SentOnce'
  <2>1. CASE AdmitLate(w)
    BY <2>1 DEF Inv, Admit, Apart, rows, AdmitLate, SentOnce, Counts
  <2>2. CASE AdmitGo(w)
    BY <2>2 DEF Inv, Admit, Apart, rows, AdmitGo, SentOnce, Counts
  <2>3. CASE AdmitRefused(w)
    BY <2>3 DEF Inv, RowsOK, Admit, Apart, rows, AdmitRefused, Settle,
        SentOnce, Counts
  <2>. QED
    BY <2>1, <2>2, <2>3 DEF Admit
<1>10. SentWhileRunning'
  <2>1. CASE AdmitLate(w)
    BY <2>1 DEF Inv, Admit, Apart, Goto, rows, AdmitLate, SentWhileRunning,
        Mine
  <2>2. CASE AdmitGo(w)
    BY <2>2 DEF Inv, Admit, Apart, Goto, rows, AdmitGo, SentWhileRunning,
        Mine
  <2>3. CASE AdmitRefused(w)
    BY <2>3 DEF Inv, Admit, CampaignFree, Apart, Goto, rows, AdmitRefused,
        Settle, SentWhileRunning, Mine
  <2>. QED
    BY <2>1, <2>2, <2>3 DEF Admit
<1>11. Behind'
  <2>1. CASE UNCHANGED <<recipient, message>>
    BY <2>1 DEF Inv, Behind
  <2>2. CASE Settle(at[w][1], "failed")
    BY <2>2, JobsArePairs, SettleKeepsBehind DEF Admit
  <2>. QED
    BY <2>1, <2>2 DEF Admit, AdmitLate, AdmitGo, AdmitRefused, rows, results
<1>. QED
  BY <1>1, <1>2, <1>3, <1>4, <1>5, <1>6, <1>7, <1>8, <1>9, <1>10, <1>11 DEF Inv

LEMMA KeptByPrepare ==
  ASSUME Inv, NEW w \in Workers, Prepare(w)
  PROVE  Inv'

<1>1. RowsOK'
  <2>1. CASE PrepareLate(w)
    BY <2>1 DEF Inv, RowsOK, Prepare, PrepareLate, Apart, counters, results, rows
  <2>2. CASE PrepareClaimed(w) \/ PrepareRefused(w)
    BY <2>2, JobsArePairs, SettleKeepsRows
       DEF Inv, RowsOK, Prepare, PrepareClaimed, PrepareRefused, Apart
  <2>3. CASE PrepareClaim(w)
    BY <2>3, JobsArePairs DEF Inv, RowsOK, Prepare, PrepareClaim, Apart, counters, results
  <2>. QED
    BY <2>1, <2>2, <2>3 DEF Prepare
<1>2. HandlersOK'
  <2>1. CASE PrepareLate(w)
    BY <2>1 DEF Inv, HandlersOK, Prepare, Apart, handlers, PrepareLate
  <2>2. CASE PrepareClaimed(w)
    BY <2>2 DEF Inv, HandlersOK, Prepare, Apart, handlers, PrepareClaimed
  <2>3. CASE PrepareRefused(w)
    BY <2>3 DEF Inv, HandlersOK, Prepare, Apart, handlers, PrepareRefused
  <2>4. CASE PrepareClaim(w)
    BY <2>4 DEF Inv, HandlersOK, Prepare, Apart, handlers, PrepareClaim
  <2>. QED
    BY <2>1, <2>2, <2>3, <2>4 DEF Prepare
<1>3. StepsOK'
  <2>1. CASE PrepareLate(w)
    BY <2>1 DEF Inv, StepsOK, Prepare, Apart, Goto, PrepareLate
  <2>2. CASE PrepareClaimed(w)
    BY <2>2 DEF Inv, StepsOK, Prepare, Apart, Goto, PrepareClaimed
  <2>3. CASE PrepareRefused(w)
    BY <2>3 DEF Inv, StepsOK, Prepare, Apart, Goto, PrepareRefused
  <2>4. CASE PrepareClaim(w)
    BY <2>4 DEF Inv, StepsOK, Prepare, Apart, Goto, PrepareClaim
  <2>. QED
    BY <2>1, <2>2, <2>3, <2>4 DEF Prepare
<1>4. OthersOK'
  <2>1. CASE PrepareLate(w)
    BY <2>1 DEF Inv, OthersOK, Prepare, Apart, PrepareLate
  <2>2. CASE PrepareClaimed(w)
    BY <2>2 DEF Inv, OthersOK, Prepare, Apart, PrepareClaimed
  <2>3. CASE PrepareRefused(w)
    BY <2>3 DEF Inv, OthersOK, Prepare, Apart, PrepareRefused
  <2>4. CASE PrepareClaim(w)
    BY <2>4 DEF Inv, OthersOK, Prepare, Apart, PrepareClaim
  <2>. QED
    BY <2>1, <2>2, <2>3, <2>4 DEF Prepare
<1>5. Begun'
  <2>1. CASE PrepareLate(w)
    BY <2>1 DEF Inv, Prepare, Apart, Goto, handlers, PrepareLate, Begun
  <2>2. CASE PrepareClaimed(w)
    BY <2>2 DEF Inv, Prepare, Apart, Goto, handlers, PrepareClaimed, Begun
  <2>3. CASE PrepareRefused(w)
    BY <2>3 DEF Inv, Prepare, Apart, Goto, handlers, PrepareRefused, Begun
  <2>4. CASE PrepareClaim(w)
    BY <2>4 DEF Inv, Prepare, Apart, Goto, handlers, PrepareClaim, Begun
  <2>. QED
    BY <2>1, <2>2, <2>3, <2>4 DEF Prepare
<1>6. Unclaimed'
  <2>1. CASE PrepareLate(w)
    BY <2>1 DEF Inv, Prepare, Apart, rows, PrepareLate, Unclaimed
  <2>2. CASE PrepareClaimed(w)
    BY <2>2 DEF Inv, Prepare, Apart, rows, PrepareClaimed, Settle, Unclaimed
  <2>3. CASE PrepareRefused(w)
    BY <2>3 DEF Inv, Prepare, Apart, rows, PrepareRefused, Settle, Unclaimed
  <2>4. CASE PrepareClaim(w)
    BY <2>4 DEF Inv, Prepare, Apart, rows, PrepareClaim, Unclaimed
  <2>. QED
    BY <2>1, <2>2, <2>3, <2>4 DEF Prepare
<1>7. Approaching'
  <2>1. CASE PrepareLate(w) \/ PrepareClaimed(w) \/ PrepareRefused(w)
    <3>1. \A v \in Workers : pc[v] # "idle" /\ Mine(v)' => Mine(v)
      BY <2>1, JobsArePairs DEF Inv, RowsOK, Prepare, PrepareLate, PrepareClaimed,
                                PrepareRefused, Apart, Settle, Mine, rows
    <3>2. pc'[w] = "check" /\ \A v \in Workers \ {w} : pc'[v] = pc[v]
      BY <2>1 DEF Inv, StepsOK, Prepare, PrepareLate, PrepareClaimed, PrepareRefused, Goto
    <3>3. UNCHANGED <<linked, requests, at>>
      BY <2>1 DEF Prepare, PrepareLate, PrepareClaimed, PrepareRefused, Apart, rows
    <3>. QED
      BY <3>1, <3>2, <3>3 DEF Inv, Approaching
  <2>2. CASE PrepareClaim(w)
    <3>1. requests[at[w][1]] = 0 /\ at[w][1] \in Recipients /\ pc[w] = "prepare"
      BY <2>2, JobsArePairs DEF Inv, Unclaimed, Prepare, PrepareClaim
    <3>2. pc'[w] = "mirror" /\ \A v \in Workers \ {w} : pc'[v] = pc[v]
      BY <2>2 DEF Inv, StepsOK, PrepareClaim, Goto
    <3>3. UNCHANGED <<recipient, requests, at>>
      BY <2>2 DEF Prepare, PrepareClaim, Apart
    <3>4. \A v \in Workers \ {w} : pc[v] # "idle" /\ Mine(v)' => Mine(v) /\ at[v][1] # at[w][1]
      BY <2>2, <3>1, <3>3, JobsArePairs DEF Inv, RowsOK, PrepareClaim, Mine
    <3>5. \A v \in Workers \ {w} : pc[v] # "idle" /\ Mine(v)' => linked'[at[v][1]] = linked[at[v][1]]
      BY <2>2, <3>1, <3>4, JobsArePairs DEF Inv, RowsOK, PrepareClaim
    <3>. QED
      BY <3>1, <3>2, <3>3, <3>4, <3>5 DEF Inv, Approaching
  <2>. QED
    BY <2>1, <2>2 DEF Prepare
<1>8. Sending'
  <2>1. CASE PrepareLate(w)
    BY <2>1 DEF Inv, Prepare, Apart, Goto, rows, PrepareLate, Sending, Mine
  <2>2. CASE PrepareClaimed(w)
    BY <2>2 DEF Inv, Prepare, RecipientFree, Apart, Goto, rows,
        PrepareClaimed, Settle, Sending, Mine
  <2>3. CASE PrepareRefused(w)
    BY <2>3 DEF Inv, Prepare, RecipientFree, Apart, Goto, rows,
        PrepareRefused, Settle, Sending, Mine
  <2>4. CASE PrepareClaim(w)
    BY <2>4 DEF Inv, Prepare, RecipientFree, Apart, Goto, rows, PrepareClaim,
        Sending, Mine
  <2>. QED
    BY <2>1, <2>2, <2>3, <2>4 DEF Prepare
<1>9. SentOnce'
  <2>1. CASE PrepareLate(w)
    BY <2>1 DEF Inv, Prepare, Apart, rows, PrepareLate, SentOnce, Counts
  <2>2. CASE PrepareClaimed(w)
    BY <2>2 DEF Inv, Prepare, Apart, rows, PrepareClaimed, Settle, SentOnce, Counts
  <2>3. CASE PrepareRefused(w)
    BY <2>3 DEF Inv, Prepare, Apart, rows, PrepareRefused, Settle, SentOnce, Counts
  <2>4. CASE PrepareClaim(w)
    BY <2>4 DEF Inv, Prepare, Apart, rows, PrepareClaim, SentOnce, Counts
  <2>. QED
    BY <2>1, <2>2, <2>3, <2>4 DEF Prepare
<1>10. SentWhileRunning'
  <2>1. CASE PrepareLate(w)
    BY <2>1 DEF Inv, Prepare, Apart, Goto, rows, PrepareLate,
        SentWhileRunning, Mine
  <2>2. CASE PrepareClaimed(w)
    BY <2>2 DEF Inv, Prepare, RecipientFree, Apart, Goto, rows,
        PrepareClaimed, Settle, SentWhileRunning, Mine
  <2>3. CASE PrepareRefused(w)
    BY <2>3 DEF Inv, Prepare, RecipientFree, Apart, Goto, rows,
        PrepareRefused, Settle, SentWhileRunning, Mine
  <2>4. CASE PrepareClaim(w)
    BY <2>4 DEF Inv, Prepare, RecipientFree, Apart, Goto, rows, PrepareClaim,
        SentWhileRunning, Mine
  <2>. QED
    BY <2>1, <2>2, <2>3, <2>4 DEF Prepare
<1>11. Behind'
  <2>1. CASE UNCHANGED <<recipient, message>>
    BY <2>1 DEF Inv, Behind
  <2>2. CASE Settle(at[w][1], "failed")
    BY <2>2, JobsArePairs, SettleKeepsBehind DEF Prepare
  <2>. QED
    BY <2>1, <2>2 DEF Prepare, PrepareLate, PrepareClaimed, PrepareRefused, PrepareClaim, rows, results
<1>. QED
  BY <1>1, <1>2, <1>3, <1>4, <1>5, <1>6, <1>7, <1>8, <1>9, <1>10, <1>11 DEF Inv

LEMMA KeptByMirror ==
  ASSUME Inv, NEW w \in Workers, Mirror(w)
  PROVE  Inv'

<1>1. RowsOK'
  <2>1. CASE Mine(w)
    BY <2>1 DEF Inv, RowsOK, Mirror, Apart, Mine, counters, results
  <2>2. CASE ~Mine(w)
    BY <2>2 DEF Inv, RowsOK, Mirror, Apart, Mine, counters, results
  <2>. QED
    BY <2>1, <2>2 DEF Mirror
<1>2. HandlersOK'
  <2>1. CASE Mine(w)
    BY <2>1 DEF Inv, HandlersOK, Mirror, Apart, Mine, handlers
  <2>2. CASE ~Mine(w)
    BY <2>2 DEF Inv, HandlersOK, Mirror, Apart, Mine, handlers
  <2>. QED
    BY <2>1, <2>2 DEF Mirror
<1>3. StepsOK'
  <2>1. /\ pc[w] = "mirror" /\ UNCHANGED at
        /\ pc' = [pc EXCEPT ![w] = "attempt"] \/ pc' = [pc EXCEPT ![w] = "release"]
    BY DEF Mirror, Apart, Goto
  <2>. QED
    BY <2>1 DEF Inv, StepsOK
<1>4. OthersOK'
  <2>1. CASE Mine(w)
    BY <2>1 DEF Inv, OthersOK, Mirror, Apart, Mine
  <2>2. CASE ~Mine(w)
    BY <2>2 DEF Inv, OthersOK, Mirror, Apart, Mine
  <2>. QED
    BY <2>1, <2>2 DEF Mirror
<1>5. Begun'
  <2>1. CASE Mine(w)
    BY <2>1 DEF Inv, StepsOK, Mirror, Apart, Goto, Mine, handlers, Begun
  <2>2. CASE ~Mine(w)
    BY <2>2 DEF Inv, StepsOK, Mirror, Apart, Goto, Mine, handlers, Begun
  <2>. QED
    BY <2>1, <2>2 DEF Mirror
<1>6. Unclaimed'
  <2>1. CASE Mine(w)
    BY <2>1 DEF Inv, Mirror, Apart, Mine, Unclaimed
  <2>2. CASE ~Mine(w)
    BY <2>2 DEF Inv, Mirror, Apart, Mine, Unclaimed
  <2>. QED
    BY <2>1, <2>2 DEF Mirror
<1>7. Approaching'
  <2>1. CASE Mine(w)
    BY <2>1, JobsArePairs DEF Inv, RowsOK, StepsOK, Mirror, Apart, Goto,
        Mine, Approaching
  <2>2. CASE ~Mine(w)
    BY <2>2 DEF Inv, StepsOK, Mirror, Apart, Goto, Mine, Approaching
  <2>. QED
    BY <2>1, <2>2 DEF Mirror
<1>8. Sending'
  <2>1. CASE Mine(w)
    BY <2>1 DEF Inv, StepsOK, Mirror, Apart, Goto, Mine, Sending
  <2>2. CASE ~Mine(w)
    BY <2>2 DEF Inv, StepsOK, Mirror, Apart, Goto, Mine, Sending
  <2>. QED
    BY <2>1, <2>2 DEF Mirror
<1>9. SentOnce'
  <2>1. CASE Mine(w)
    BY <2>1 DEF Inv, Mirror, Apart, Mine, SentOnce
  <2>2. CASE ~Mine(w)
    BY <2>2 DEF Inv, Mirror, Apart, Mine, SentOnce
  <2>. QED
    BY <2>1, <2>2 DEF Mirror
<1>10. SentWhileRunning'
  <2>1. CASE Mine(w)
    BY <2>1, JobsArePairs DEF Inv, RowsOK, StepsOK, Mirror, Apart, Goto,
        Mine, SentWhileRunning
  <2>2. CASE ~Mine(w)
    BY <2>2 DEF Inv, StepsOK, Mirror, Apart, Goto, Mine, SentWhileRunning
  <2>. QED
    BY <2>1, <2>2 DEF Mirror
<1>11. Behind'
  BY DEF Inv, Behind, Mirror, results
<1>. QED
  BY <1>1, <1>2, <1>3, <1>4, <1>5, <1>6, <1>7, <1>8, <1>9, <1>10, <1>11 DEF Inv

LEMMA KeptByMirrorFails ==
  ASSUME Inv, NEW w \in Workers, MirrorFails(w)
  PROVE  Inv'

<1>1. RowsOK'
  BY DEF Inv, RowsOK, MirrorFails, Mine, counters, results
<1>2. HandlersOK'
  BY DEF Inv, HandlersOK, MirrorFails, Mine, handlers
<1>3. StepsOK'
  BY DEF Inv, StepsOK, MirrorFails, Goto, Mine
<1>4. OthersOK'
  BY JobsArePairs DEF Inv, OthersOK, MirrorFails, Mine, history
<1>5. Begun'
  BY DEF Inv, MirrorFails, Goto, Mine, handlers, Begun
<1>6. Unclaimed'
  BY DEF Inv, MirrorFails, Mine, history, Unclaimed
<1>7. Approaching'
  <2>1. /\ pc'[w] = "release" /\ \A v \in Workers \ {w} : pc'[v] = pc[v]
        /\ pc[w] = "mirror"
    BY DEF Inv, StepsOK, MirrorFails, Goto
  <2>2. UNCHANGED <<recipient, claim, requests, at>>
    BY DEF MirrorFails, history
  <2>3. \A r \in Recipients : linked[r] => linked'[r]
    BY JobsArePairs DEF Inv, RowsOK, MirrorFails
  <2>. QED
    BY <2>1, <2>2, <2>3, JobsArePairs DEF Inv, Approaching, Mine
<1>8. Sending'
  BY DEF Inv, MirrorFails, Goto, Mine, history, Sending
<1>9. SentOnce'
  BY DEF Inv, MirrorFails, Mine, history, SentOnce
<1>10. SentWhileRunning'
  BY JobsArePairs DEF Inv, RowsOK, MirrorFails, Goto, Mine, SentWhileRunning
<1>11. Behind'
  BY DEF Inv, Behind, MirrorFails, results
<1>. QED
  BY <1>1, <1>2, <1>3, <1>4, <1>5, <1>6, <1>7, <1>8, <1>9, <1>10, <1>11 DEF Inv

LEMMA KeptByRelease ==
  ASSUME Inv, NEW w \in Workers, Release(w)
  PROVE  Inv'

<1>1. RowsOK'
  BY DEF Inv, RowsOK, Release, Mine, counters, results
<1>2. HandlersOK'
  BY DEF Inv, HandlersOK, Release, Mine, handlers
<1>3. StepsOK'
  BY DEF Inv, StepsOK, Release, Leave, Goto, Mine
<1>4. OthersOK'
  BY DEF Inv, OthersOK, Release, Leave, Mine, history
<1>5. Begun'
  BY DEF Inv, StepsOK, Release, Leave, Goto, Mine, handlers, Begun
<1>6. Unclaimed'
  <2>1. Mine(w) => requests[at[w][1]] = 0
    BY DEF Inv, Approaching, Release
  <2>2. \A r \in Recipients : claim'[r] = claim[r] \/ (Mine(w) /\ r = at[w][1])
    BY DEF Inv, RowsOK, Release
  <2>3. UNCHANGED <<recipient, requests>>
    BY DEF Release, history
  <2>. QED
    BY <2>1, <2>2, <2>3 DEF Inv, Unclaimed
<1>7. Approaching'
  BY JobsArePairs DEF Inv, StepsOK, Release, Leave, Goto, Mine, history,
      Approaching
<1>8. Sending'
  BY JobsArePairs DEF Inv, Release, Leave, Goto, Mine, history, Sending
<1>9. SentOnce'
  BY DEF Inv, Release, Mine, history, SentOnce
<1>10. SentWhileRunning'
  BY DEF Inv, Release, Leave, Goto, Mine, SentWhileRunning
<1>11. Behind'
  BY DEF Inv, Behind, Release, results
<1>. QED
  BY <1>1, <1>2, <1>3, <1>4, <1>5, <1>6, <1>7, <1>8, <1>9, <1>10, <1>11 DEF Inv

LEMMA KeptByAttempt ==
  ASSUME Inv, NEW w \in Workers, Attempt(w)
  PROVE  Inv'

<1>1. RowsOK'
  <2>1. CASE AttemptRefused(w)
    BY <2>1, JobsArePairs, SettleKeepsRows DEF Inv, RowsOK, Attempt, AttemptRefused, Apart, counters, results
  <2>2. CASE AttemptSend(w)
    BY <2>2 DEF Inv, RowsOK, Attempt, AttemptSend, Apart, counters, results
  <2>. QED
    BY <2>1, <2>2 DEF Attempt
<1>2. HandlersOK'
  <2>1. CASE AttemptRefused(w)
    BY <2>1 DEF Inv, HandlersOK, Attempt, Apart, handlers, AttemptRefused,
        Mine
  <2>2. CASE AttemptSend(w)
    BY <2>2 DEF Inv, HandlersOK, Attempt, Apart, handlers, AttemptSend, Mine
  <2>. QED
    BY <2>1, <2>2 DEF Attempt
<1>3. StepsOK'
  <2>1. CASE AttemptRefused(w)
    BY <2>1 DEF Inv, StepsOK, Attempt, Apart, Goto, AttemptRefused, Mine
  <2>2. CASE AttemptSend(w)
    BY <2>2 DEF Inv, StepsOK, Attempt, Apart, Goto, AttemptSend, Mine
  <2>. QED
    BY <2>1, <2>2 DEF Attempt
<1>4. OthersOK'
  <2>1. requests' \in [Recipients -> Nat]
    BY JobsArePairs DEF Inv, OthersOK, Attempt, AttemptRefused, AttemptSend
  <2>. QED
    BY <2>1 DEF Inv, OthersOK, Attempt, Apart
<1>5. Begun'
  <2>1. CASE AttemptRefused(w)
    BY <2>1 DEF Inv, Attempt, Apart, Goto, handlers, AttemptRefused, Mine,
        Begun
  <2>2. CASE AttemptSend(w)
    BY <2>2 DEF Inv, Attempt, Apart, Goto, handlers, AttemptSend, Mine, Begun
  <2>. QED
    BY <2>1, <2>2 DEF Attempt
<1>6. Unclaimed'
  <2>1. CASE AttemptRefused(w)
    BY <2>1 DEF Inv, RowsOK, Attempt, Apart, AttemptRefused, Settle, Mine,
        Unclaimed
  <2>2. CASE AttemptSend(w)
    BY <2>2, JobsArePairs DEF Inv, Attempt, Apart, AttemptSend, Mine,
        Unclaimed
  <2>. QED
    BY <2>1, <2>2 DEF Attempt
<1>7. Approaching'
  <2>1. \A v \in Workers : pc[v] # "idle" /\ Mine(v)' => Mine(v)
    BY JobsArePairs DEF Inv, RowsOK, Attempt, AttemptRefused, AttemptSend, Apart, Settle, Mine
  <2>2. pc'[w] \in {"check", "sending"} /\ \A v \in Workers \ {w} : pc'[v] = pc[v]
    BY DEF Inv, StepsOK, Attempt, AttemptRefused, AttemptSend, Goto
  <2>3. \A v \in Workers \ {w} : pc[v] # "idle" /\ Mine(v) => requests'[at[v][1]] = requests[at[v][1]]
    BY JobsArePairs DEF Inv, OthersOK, Attempt, AttemptRefused, AttemptSend, Mine
  <2>4. UNCHANGED <<linked, at>>
    BY DEF Attempt, Apart
  <2>. QED
    BY <2>1, <2>2, <2>3, <2>4 DEF Inv, Approaching
<1>8. Sending'
  <2>1. CASE AttemptRefused(w)
    <3>1. pc'[w] = "check" /\ \A v \in Workers \ {w} : pc'[v] = pc[v] /\ pc[v] # "sending"
      BY <2>1 DEF Inv, StepsOK, Attempt, AttemptRefused, CampaignFree, Goto
    <3>2. \A v \in Workers : pc[v] # "idle" /\ Mine(v)' => Mine(v)
      BY <2>1, JobsArePairs DEF Inv, RowsOK, Attempt, AttemptRefused, Apart, Settle, Mine
    <3>3. UNCHANGED <<requests, ans, at>>
      BY <2>1 DEF Attempt, AttemptRefused, Apart
    <3>. QED
      BY <3>1, <3>2, <3>3 DEF Inv, Sending
  <2>2. CASE AttemptSend(w)
    <3>1. /\ pc'[w] = "sending" /\ \A v \in Workers \ {w} : pc'[v] = pc[v] /\ pc[v] # "sending"
          /\ pc[w] = "attempt" /\ Mine(w) /\ at[w][1] \in Recipients
      BY <2>2, JobsArePairs DEF Inv, StepsOK, Attempt, AttemptSend, CampaignFree, Goto
    <3>2. UNCHANGED <<rows, at, ans, campaign, gen>>
      BY <2>2 DEF Attempt, AttemptSend, Apart, rows
    <3>3. requests[at[w][1]] = 0 /\ requests' = [requests EXCEPT ![at[w][1]] = 1]
      <4>1. requests[at[w][1]] = 0
        BY <3>1 DEF Inv, Approaching
      <4>2. requests' = [requests EXCEPT ![at[w][1]] = requests[at[w][1]] + 1]
        BY <2>2 DEF AttemptSend
      <4>. QED
        BY <4>1, <4>2
    <3>4. \A v \in Workers \ {w} : Mine(v) => at[v][1] # at[w][1]
      BY <3>1 DEF Mine
    <3>. QED
      BY <3>1, <3>2, <3>3, <3>4, JobsArePairs DEF Inv, OthersOK, Sending, Mine, rows
  <2>. QED
    BY <2>1, <2>2 DEF Attempt
<1>9. SentOnce'
  <2>1. CASE AttemptRefused(w)
    BY <2>1, JobsArePairs DEF Inv, RowsOK, SentOnce, Counts, Attempt, AttemptRefused, Settle, Apart
  <2>2. CASE AttemptSend(w)
    <3>1. /\ pc'[w] = "sending" /\ \A v \in Workers \ {w} : pc'[v] = pc[v] /\ pc[v] # "sending"
          /\ pc[w] = "attempt" /\ Mine(w) /\ at[w][1] \in Recipients
      BY <2>2, JobsArePairs DEF Inv, StepsOK, Attempt, AttemptSend, CampaignFree, Goto
    <3>2. UNCHANGED <<rows, at, ans, campaign, gen>>
      BY <2>2 DEF Attempt, AttemptSend, Apart, rows
    <3>3. requests[at[w][1]] = 0 /\ requests' = [requests EXCEPT ![at[w][1]] = 1]
      <4>1. requests[at[w][1]] = 0
        BY <3>1 DEF Inv, Approaching
      <4>2. requests' = [requests EXCEPT ![at[w][1]] = requests[at[w][1]] + 1]
        BY <2>2 DEF AttemptSend
      <4>. QED
        BY <4>1, <4>2
    <3>4. recipient[at[w][1]] = "pending"
      BY <3>1 DEF Mine
    <3>. QED
      BY <3>1, <3>2, <3>3, <3>4 DEF Inv, OthersOK, SentOnce, Counts, rows
  <2>. QED
    BY <2>1, <2>2 DEF Attempt
<1>10. SentWhileRunning'
  <2>1. CASE AttemptRefused(w)
    BY <2>1 DEF Inv, StepsOK, SentWhileRunning, Attempt, AttemptRefused, CampaignFree, Goto
  <2>2. CASE AttemptSend(w)
    <3>1. /\ pc'[w] = "sending" /\ \A v \in Workers \ {w} : pc'[v] = pc[v] /\ pc[v] # "sending"
          /\ pc[w] = "attempt" /\ Mine(w) /\ at[w][1] \in Recipients
      BY <2>2, JobsArePairs DEF Inv, StepsOK, Attempt, AttemptSend, CampaignFree, Goto
    <3>2. UNCHANGED <<rows, at, ans, campaign, gen>>
      BY <2>2 DEF Attempt, AttemptSend, Apart, rows
    <3>3. requests[at[w][1]] = 0 /\ requests' = [requests EXCEPT ![at[w][1]] = 1]
      <4>1. requests[at[w][1]] = 0
        BY <3>1 DEF Inv, Approaching
      <4>2. requests' = [requests EXCEPT ![at[w][1]] = requests[at[w][1]] + 1]
        BY <2>2 DEF AttemptSend
      <4>. QED
        BY <4>1, <4>2
    <3>4. linked[at[w][1]] /\ campaign = "processing" /\ at[w][2] = gen
      <4>1. at[w][2] <= gen /\ at[w][2] >= gen
        BY <2>2, <3>1 DEF Inv, Begun, AttemptSend, Current
      <4>2. at[w][2] \in Nat /\ gen \in Nat
        BY <3>1, JobsArePairs DEF Inv, RowsOK
      <4>. QED
        BY <2>2, <3>1, <4>1, <4>2 DEF Inv, Approaching, AttemptSend, Current
    <3>. QED
      BY <3>1, <3>2, <3>4 DEF Mine, SentWhileRunning, rows
  <2>. QED
    BY <2>1, <2>2 DEF Attempt
<1>11. Behind'
  <2>1. CASE UNCHANGED <<recipient, message>>
    BY <2>1 DEF Inv, Behind
  <2>2. CASE Settle(at[w][1], "failed")
    BY <2>2, JobsArePairs, SettleKeepsBehind DEF Attempt
  <2>. QED
    BY <2>1, <2>2 DEF Attempt, AttemptRefused, AttemptSend, results
<1>. QED
  BY <1>1, <1>2, <1>3, <1>4, <1>5, <1>6, <1>7, <1>8, <1>9, <1>10, <1>11 DEF Inv

LEMMA KeptByAnswer ==
  ASSUME Inv, NEW w \in Workers, Answer(w)
  PROVE  Inv'

<1>1. RowsOK'
  <2>1. PICK what \in {"sent", "failed"} :
          \/ Settle(at[w][1], what) /\ Goto(w, "check") /\ UNCHANGED ans
          \/ /\ Settle(at[w][1], what) \/ UNCHANGED <<recipient, results>>
             /\ Goto(w, "recover") /\ ans' = [ans EXCEPT ![w] = what]
    BY DEF Answer
  <2>. QED
    BY <2>1, JobsArePairs, SettleKeepsRows DEF Inv, RowsOK, Answer, counters, results
<1>2. HandlersOK'
  BY DEF Inv, HandlersOK, Answer, handlers
<1>3. StepsOK'
  <2>1. PICK what \in {"sent", "failed"} :
          \/ Settle(at[w][1], what) /\ Goto(w, "check") /\ UNCHANGED ans
          \/ /\ Settle(at[w][1], what) \/ UNCHANGED <<recipient, results>>
             /\ Goto(w, "recover") /\ ans' = [ans EXCEPT ![w] = what]
    BY DEF Answer
  <2>2. pc[w] = "sending" /\ UNCHANGED at
    BY DEF Answer
  <2>. QED
    BY <2>1, <2>2 DEF Inv, StepsOK, Goto
<1>4. OthersOK'
  <2>1. PICK what \in {"sent", "failed"} :
          \/ Settle(at[w][1], what) /\ Goto(w, "check") /\ UNCHANGED ans
          \/ /\ Settle(at[w][1], what) \/ UNCHANGED <<recipient, results>>
             /\ Goto(w, "recover") /\ ans' = [ans EXCEPT ![w] = what]
    BY DEF Answer
  <2>2. ans' \in [Workers -> {"none", "sent", "failed"}]
    BY <2>1 DEF Inv, OthersOK
  <2>3. faults' \in 0..MaxFaults
    BY JobsArePairs DEF Inv, OthersOK, Answer
  <2>. QED
    BY <2>2, <2>3 DEF Inv, OthersOK, Answer, history
<1>5. Begun'
  BY DEF Inv, StepsOK, Answer, Goto, handlers, Begun
<1>6. Unclaimed'
  BY DEF Inv, RowsOK, Answer, Settle, history, Unclaimed
<1>7. Approaching'
  <2>1. PICK what \in {"sent", "failed"} :
          \/ Settle(at[w][1], what) /\ Goto(w, "check") /\ UNCHANGED ans
          \/ /\ Settle(at[w][1], what) \/ UNCHANGED <<recipient, results>>
             /\ Goto(w, "recover") /\ ans' = [ans EXCEPT ![w] = what]
    BY DEF Answer
  <2>2. \A v \in Workers : pc[v] # "idle" /\ Mine(v)' => Mine(v)
    BY <2>1, JobsArePairs DEF Inv, RowsOK, Answer, Settle, Mine, Goto
  <2>3. \A v \in Workers : pc'[v] = IF v = w THEN pc'[w] ELSE pc[v]
    BY <2>1 DEF Inv, StepsOK, Goto
  <2>4. pc'[w] \in {"check", "recover"}
    BY <2>1 DEF Inv, StepsOK, Goto
  <2>. QED
    BY <2>2, <2>3, <2>4 DEF Inv, Approaching, Answer, history
<1>8. Sending'
  BY JobsArePairs DEF Inv, RowsOK, StepsOK, OthersOK, Answer, Settle, Goto,
      history, Sending, Mine
<1>9. SentOnce'
  <2>1. PICK what \in {"sent", "failed"} :
          \/ Settle(at[w][1], what) /\ Goto(w, "check") /\ UNCHANGED ans
          \/ /\ Settle(at[w][1], what) \/ UNCHANGED <<recipient, results>>
             /\ Goto(w, "recover") /\ ans' = [ans EXCEPT ![w] = what]
    BY DEF Answer
  <2>2. requests[at[w][1]] = 1
    BY DEF Inv, Sending, Answer
  <2>. QED
    BY <2>1, <2>2, JobsArePairs DEF Inv, RowsOK, SentOnce, Counts, Answer, Settle, history
<1>10. SentWhileRunning'
  <2>1. PICK what \in {"sent", "failed"} :
          \/ Settle(at[w][1], what) /\ Goto(w, "check") /\ UNCHANGED ans
          \/ /\ Settle(at[w][1], what) \/ UNCHANGED <<recipient, results>>
             /\ Goto(w, "recover") /\ ans' = [ans EXCEPT ![w] = what]
    BY DEF Answer
  <2>2. \A v \in Workers : pc'[v] = "sending" => v # w /\ pc[v] = "sending" /\ Mine(v) /\ Mine(w)
    BY <2>1 DEF Inv, StepsOK, Goto, Sending, Answer
  <2>3. \A v \in Workers : pc'[v] = "sending" => at[v][1] # at[w][1]
    BY <2>2 DEF Mine
  <2>4. \A v \in Workers : pc'[v] = "sending" => Mine(v)'
    BY <2>1, <2>2, <2>3, JobsArePairs DEF Inv, RowsOK, Answer, Settle, Mine, counters, results
  <2>. QED
    BY <2>2, <2>4 DEF Inv, SentWhileRunning, Answer
<1>11. Behind'
  <2>1. PICK what \in {"sent", "failed"} :
          Settle(at[w][1], what) \/ UNCHANGED <<recipient, results>>
    BY DEF Answer
  <2>2. CASE Settle(at[w][1], what)
    BY <2>2, JobsArePairs, SettleKeepsBehind DEF Answer
  <2>3. CASE UNCHANGED <<recipient, results>>
    BY <2>3 DEF Inv, Behind, results
  <2>. QED
    BY <2>1, <2>2, <2>3
<1>. QED
  BY <1>1, <1>2, <1>3, <1>4, <1>5, <1>6, <1>7, <1>8, <1>9, <1>10, <1>11 DEF Inv

LEMMA KeptByRecover ==
  ASSUME Inv, NEW w \in Workers, Recover(w)
  PROVE  Inv'

<1>1. RowsOK'
  <2>1. CASE RecoverLate(w) \/ RecoverLost(w)
    BY <2>1 DEF Inv, RowsOK, Recover, RecoverLate, RecoverLost, counters, results
  <2>2. CASE Recovered(w)
    <3>1. ans[w] \in {"sent", "failed"}
      BY DEF Inv, OthersOK, Sending, Recover
    <3>. QED
      BY <2>2, <3>1, JobsArePairs, SettleKeepsRows DEF Inv, RowsOK, Recover, Recovered
  <2>. QED
    BY <2>1, <2>2 DEF Recover
<1>2. HandlersOK'
  <2>1. CASE RecoverLate(w)
    BY <2>1 DEF Inv, HandlersOK, Recover, Mine, handlers, RecoverLate
  <2>2. CASE RecoverLost(w)
    BY <2>2 DEF Inv, HandlersOK, Recover, Mine, handlers, RecoverLost
  <2>3. CASE Recovered(w)
    BY <2>3 DEF Inv, HandlersOK, Recover, Mine, handlers, Recovered
  <2>. QED
    BY <2>1, <2>2, <2>3 DEF Recover
<1>3. StepsOK'
  <2>1. CASE RecoverLate(w)
    BY <2>1 DEF Inv, StepsOK, Recover, Goto, Mine, RecoverLate
  <2>2. CASE RecoverLost(w)
    BY <2>2 DEF Inv, StepsOK, Recover, Goto, Mine, RecoverLost, Leave
  <2>3. CASE Recovered(w)
    BY <2>3 DEF Inv, StepsOK, Recover, Goto, Mine, Recovered
  <2>. QED
    BY <2>1, <2>2, <2>3 DEF Recover
<1>4. OthersOK'
  <2>1. CASE RecoverLate(w)
    BY <2>1 DEF Inv, OthersOK, Recover, Mine, history, RecoverLate
  <2>2. CASE RecoverLost(w)
    BY <2>2 DEF Inv, OthersOK, Recover, Mine, history, RecoverLost, Leave
  <2>3. CASE Recovered(w)
    BY <2>3 DEF Inv, OthersOK, Recover, Mine, history, Recovered
  <2>. QED
    BY <2>1, <2>2, <2>3 DEF Recover
<1>5. Begun'
  <2>1. CASE RecoverLate(w)
    BY <2>1 DEF Inv, Recover, Goto, Mine, handlers, RecoverLate, Begun
  <2>2. CASE RecoverLost(w)
    BY <2>2 DEF Inv, StepsOK, Recover, Goto, Mine, handlers, RecoverLost,
        Leave, Begun
  <2>3. CASE Recovered(w)
    BY <2>3 DEF Inv, Recover, Goto, Mine, handlers, Recovered, Begun
  <2>. QED
    BY <2>1, <2>2, <2>3 DEF Recover
<1>6. Unclaimed'
  <2>1. CASE RecoverLate(w)
    BY <2>1 DEF Inv, Recover, Mine, history, RecoverLate, Unclaimed
  <2>2. CASE RecoverLost(w)
    BY <2>2 DEF Inv, Recover, Mine, history, RecoverLost, Unclaimed
  <2>3. CASE Recovered(w)
    BY <2>3 DEF Inv, Recover, Mine, history, Recovered, Settle, Unclaimed
  <2>. QED
    BY <2>1, <2>2, <2>3 DEF Recover
<1>7. Approaching'
  <2>1. CASE RecoverLate(w)
    BY <2>1 DEF Inv, Recover, Goto, Mine, history, RecoverLate, Approaching
  <2>2. CASE RecoverLost(w)
    BY <2>2 DEF Inv, Recover, Goto, Mine, history, RecoverLost, Leave,
        Approaching
  <2>3. CASE Recovered(w)
    BY <2>3 DEF Inv, Recover, Goto, Mine, history, Recovered, Settle,
        Approaching
  <2>. QED
    BY <2>1, <2>2, <2>3 DEF Recover
<1>8. Sending'
  <2>1. CASE RecoverLate(w)
    BY <2>1 DEF Inv, Recover, Goto, Mine, history, RecoverLate, Sending
  <2>2. CASE RecoverLost(w)
    BY <2>2 DEF Inv, StepsOK, Recover, Goto, Mine, history, RecoverLost,
        Leave, Sending
  <2>3. CASE Recovered(w)
    BY <2>3 DEF Inv, Recover, Goto, Mine, history, Recovered, Settle, Sending
  <2>. QED
    BY <2>1, <2>2, <2>3 DEF Recover
<1>9. SentOnce'
  <2>1. CASE RecoverLate(w) \/ RecoverLost(w)
    BY <2>1 DEF Inv, SentOnce, Counts, Recover, RecoverLate, RecoverLost, history
  <2>2. CASE Recovered(w)
    <3>1. requests[at[w][1]] = 1
      BY <2>2 DEF Inv, Sending, Recover, Recovered
    <3>. QED
      BY <2>2, <3>1, JobsArePairs DEF Inv, RowsOK, SentOnce, Counts, Recover, Recovered, Settle, history
  <2>. QED
    BY <2>1, <2>2 DEF Recover
<1>10. SentWhileRunning'
  <2>1. CASE RecoverLate(w)
    BY <2>1 DEF Inv, Recover, Goto, Mine, RecoverLate, SentWhileRunning
  <2>2. CASE RecoverLost(w)
    BY <2>2 DEF Inv, Recover, Goto, Mine, RecoverLost, Leave,
        SentWhileRunning
  <2>3. CASE Recovered(w)
    BY <2>3 DEF Inv, Recover, Goto, Mine, Recovered, Settle, SentWhileRunning
  <2>. QED
    BY <2>1, <2>2, <2>3 DEF Recover
<1>11. Behind'
  <2>1. CASE UNCHANGED <<recipient, message>>
    BY <2>1 DEF Inv, Behind
  <2>2. CASE Settle(at[w][1], ans[w])
    BY <2>2, JobsArePairs, SettleKeepsBehind DEF Recover
  <2>. QED
    BY <2>1, <2>2 DEF Recover, RecoverLate, RecoverLost, Recovered, results
<1>. QED
  BY <1>1, <1>2, <1>3, <1>4, <1>5, <1>6, <1>7, <1>8, <1>9, <1>10, <1>11 DEF Inv

LEMMA KeptByCount ==
  ASSUME Inv, NEW w \in Workers, Count(w)
  PROVE  Inv'

<1>1. RowsOK'
  BY DEF Inv, RowsOK, Count, Apart, counters, results, rows
<1>2. HandlersOK'
  BY DEF Inv, HandlersOK, Count, Apart, handlers
<1>3. StepsOK'
  BY DEF Inv, StepsOK, Count, Apart, Goto
<1>4. OthersOK'
  BY DEF Inv, OthersOK, Count, Apart
<1>5. Begun'
  BY DEF Inv, Count, Apart, Goto, handlers, Begun
<1>6. Unclaimed'
  BY DEF Inv, Count, Apart, rows, Unclaimed
<1>7. Approaching'
  BY DEF Inv, Count, Apart, Goto, rows, Approaching, Mine
<1>8. Sending'
  BY DEF Inv, Count, Apart, Goto, rows, Sending, Mine
<1>9. SentOnce'
  BY DEF Inv, Count, Apart, rows, SentOnce
<1>10. SentWhileRunning'
  BY DEF Inv, Count, Apart, Goto, rows, SentWhileRunning, Mine
<1>11. Behind'
  BY DEF Inv, Behind, Count, rows, results
<1>. QED
  BY <1>1, <1>2, <1>3, <1>4, <1>5, <1>6, <1>7, <1>8, <1>9, <1>10, <1>11 DEF Inv

LEMMA KeptByComplete ==
  ASSUME Inv, NEW w \in Workers, Complete(w)
  PROVE  Inv'

<1>1. RowsOK'
  BY DEF Inv, RowsOK, Complete, counters, results, rows
<1>2. HandlersOK'
  BY DEF Inv, HandlersOK, Complete, handlers
<1>3. StepsOK'
  BY DEF Inv, StepsOK, Complete, Goto
<1>4. OthersOK'
  BY DEF Inv, OthersOK, Complete, history
<1>5. Begun'
  BY DEF Inv, Complete, Goto, handlers, Begun
<1>6. Unclaimed'
  BY DEF Inv, Complete, rows, history, Unclaimed
<1>7. Approaching'
  BY DEF Inv, Complete, Goto, rows, history, Approaching, Mine
<1>8. Sending'
  BY DEF Inv, Complete, Goto, rows, history, Sending, Mine
<1>9. SentOnce'
  BY DEF Inv, Complete, rows, history, SentOnce
<1>10. SentWhileRunning'
  BY DEF Inv, Complete, CampaignFree, Goto, rows, SentWhileRunning, Mine
<1>11. Behind'
  BY DEF Inv, Behind, Complete, rows, results
<1>. QED
  BY <1>1, <1>2, <1>3, <1>4, <1>5, <1>6, <1>7, <1>8, <1>9, <1>10, <1>11 DEF Inv

LEMMA KeptByGiveUp ==
  ASSUME Inv, NEW w \in Workers, GiveUp(w)
  PROVE  Inv'

<1>1. RowsOK'
  BY DEF Inv, RowsOK, GiveUp, counters, results, rows
<1>2. HandlersOK'
  BY DEF Inv, HandlersOK, GiveUp, handlers
<1>3. StepsOK'
  BY DEF Inv, StepsOK, GiveUp, Leave, Goto
<1>4. OthersOK'
  BY JobsArePairs DEF Inv, OthersOK, GiveUp, Leave, history
<1>5. Begun'
  BY DEF Inv, StepsOK, GiveUp, Leave, Goto, handlers, Begun
<1>6. Unclaimed'
  BY DEF Inv, GiveUp, rows, history, Unclaimed
<1>7. Approaching'
  BY DEF Inv, StepsOK, GiveUp, Leave, Goto, rows, history, Approaching, Mine
<1>8. Sending'
  BY DEF Inv, StepsOK, GiveUp, Leave, Goto, rows, history, Sending, Mine
<1>9. SentOnce'
  BY DEF Inv, GiveUp, rows, history, SentOnce
<1>10. SentWhileRunning'
  BY DEF Inv, GiveUp, Leave, Goto, rows, SentWhileRunning, Mine
<1>11. Behind'
  BY DEF Inv, Behind, GiveUp, rows, results
<1>. QED
  BY <1>1, <1>2, <1>3, <1>4, <1>5, <1>6, <1>7, <1>8, <1>9, <1>10, <1>11 DEF Inv

LEMMA KeptByCrash ==
  ASSUME Inv, NEW w \in Workers, Crash(w)
  PROVE  Inv'

<1>1. RowsOK'
  BY DEF Inv, RowsOK, Crash, counters, results, rows
<1>2. HandlersOK'
  BY DEF Inv, HandlersOK, Crash, handlers
<1>3. StepsOK'
  BY DEF Inv, StepsOK, Crash, Leave, Goto
<1>4. OthersOK'
  BY JobsArePairs DEF Inv, OthersOK, Crash, Leave, history
<1>5. Begun'
  BY DEF Inv, StepsOK, Crash, Leave, Goto, handlers, Begun
<1>6. Unclaimed'
  BY DEF Inv, Crash, rows, history, Unclaimed
<1>7. Approaching'
  BY DEF Inv, StepsOK, Crash, Leave, Goto, rows, history, Approaching, Mine
<1>8. Sending'
  BY DEF Inv, StepsOK, Crash, Leave, Goto, rows, history, Sending, Mine
<1>9. SentOnce'
  BY DEF Inv, Crash, rows, history, SentOnce
<1>10. SentWhileRunning'
  BY DEF Inv, StepsOK, Crash, Leave, Goto, rows, SentWhileRunning, Mine
<1>11. Behind'
  BY DEF Inv, Behind, Crash, rows, results
<1>. QED
  BY <1>1, <1>2, <1>3, <1>4, <1>5, <1>6, <1>7, <1>8, <1>9, <1>10, <1>11 DEF Inv

LEMMA KeptByStutter ==
  ASSUME Inv, UNCHANGED vars
  PROVE  Inv'

<1>1. RowsOK'
  BY DEF Inv, RowsOK, vars, counters, results, rows
<1>2. HandlersOK'
  BY DEF Inv, HandlersOK, vars, handlers
<1>3. StepsOK'
  BY DEF Inv, StepsOK, vars, minds
<1>4. OthersOK'
  BY DEF Inv, OthersOK, vars, minds, history
<1>5. Begun'
  BY DEF Inv, vars, handlers, minds, Begun
<1>6. Unclaimed'
  BY DEF Inv, vars, rows, history, Unclaimed
<1>7. Approaching'
  BY DEF Inv, vars, rows, minds, history, Approaching, Mine
<1>8. Sending'
  BY DEF Inv, vars, rows, minds, history, Sending, Mine
<1>9. SentOnce'
  BY DEF Inv, vars, rows, history, SentOnce
<1>10. SentWhileRunning'
  BY DEF Inv, vars, rows, minds, SentWhileRunning, Mine
<1>11. Behind'
  BY DEF Inv, Behind, vars, rows, results
<1>. QED
  BY <1>1, <1>2, <1>3, <1>4, <1>5, <1>6, <1>7, <1>8, <1>9, <1>10, <1>11 DEF Inv

LEMMA InvInit == Init => Inv

<1>. SUFFICES ASSUME Init PROVE Inv
  OBVIOUS
<1>1. RowsOK
  BY CampaignAssumption DEF Init, RowsOK, Statuses
<1>2. HandlersOK
  <2>1. NoPrior \in {"none", "draft", "paused", "completed"} \X Nat \X Nat \X Nat \X Nat
    BY DEF NoPrior
  <2>2. prior \in [Gens -> {"none", "draft", "paused", "completed"} \X Nat \X Nat \X Nat \X Nat]
    BY <2>1 DEF Init
  <2>3. launch \in [Gens -> {"none", "starting", "retrying", "unstarting", "unretrying", "done"}]
    BY DEF Init
  <2>4. batch \in [Gens -> SUBSET Recipients]
    BY DEF Init
  <2>. QED
    BY <2>2, <2>3, <2>4 DEF HandlersOK
<1>3. StepsOK
  BY DEF Init, StepsOK
<1>4. OthersOK
  <2>1. entry \in [Jobs -> {"none", "new", "taken", "done"}]
    BY DEF Init
  <2>2. requests \in [Recipients -> Nat] /\ faults \in 0..MaxFaults
    BY CampaignAssumption DEF Init
  <2>. QED
    BY <2>1, <2>2 DEF Init, OthersOK
<1>5. Begun /\ Unclaimed /\ Approaching /\ Sending /\ SentOnce /\ SentWhileRunning /\ Behind
  BY DEF Init, Begun, Unclaimed, Approaching, Sending, SentOnce, SentWhileRunning, Behind, Counts
<1>. QED
  BY <1>1, <1>2, <1>3, <1>4, <1>5 DEF Inv

LEMMA InvNext == Inv /\ [Next]_vars => Inv'

<1>. SUFFICES ASSUME Inv, [Next]_vars PROVE Inv'
  OBVIOUS
<1>1. CASE StartCampaign \/ RetryFailed \/ PauseCampaign \/ CancelCampaign
  BY <1>1, KeptByStartCampaign, KeptByRetryFailed, KeptByPauseCampaign, KeptByCancelCampaign
<1>2. ASSUME NEW g \in Gens, Enqueue(g) \/ EnqueueFails(g) \/ Unstart(g) \/ Unretry(g)
      PROVE  Inv'
  BY <1>2, KeptByEnqueue, KeptByEnqueueFails, KeptByUnstart, KeptByUnretry
<1>3. ASSUME NEW r \in Recipients, Receipt(r)
      PROVE  Inv'
  BY <1>3, KeptByReceipt
<1>4. ASSUME NEW w \in Workers, Read(w) \/ Reclaim(w) \/ Restart(w)
      PROVE  Inv'
  BY <1>4, KeptByRead, KeptByReclaim, KeptByRestart
<1>5. ASSUME NEW w \in Workers, MirrorFails(w) \/ GiveUp(w) \/ Crash(w)
      PROVE  Inv'
  BY <1>5, KeptByMirrorFails, KeptByGiveUp, KeptByCrash
<1>6. ASSUME NEW w \in Workers, Handle(w)
      PROVE  Inv'
  <2>1. CASE Admit(w) \/ Prepare(w) \/ Mirror(w) \/ Release(w) \/ Attempt(w)
    BY <2>1, KeptByAdmit, KeptByPrepare, KeptByMirror, KeptByRelease, KeptByAttempt
  <2>2. CASE Answer(w) \/ Recover(w) \/ Count(w) \/ Complete(w) \/ Ack(w)
    BY <2>2, KeptByAnswer, KeptByRecover, KeptByCount, KeptByComplete, KeptByAck
  <2>. QED
    BY <1>6, <2>1, <2>2 DEF Handle
<1>7. CASE UNCHANGED vars
  BY <1>7, KeptByStutter
<1>. QED
  BY <1>1, <1>2, <1>3, <1>4, <1>5, <1>6, <1>7 DEF Next

\* The invariant holds in every state.
THEOREM CampaignInvariant == Spec => []Inv

<1>. QED
  BY InvInit, InvNext, PTL DEF Spec

\* The rows, the stream and the workers' state stay well formed: no status is
\* restored that was never saved, and no counter goes below zero.
THEOREM CampaignTypeCorrect == Spec => []TypeOK

<1>1. Inv => TypeOK
  BY TypeParts DEF Inv
<1>. QED
  BY <1>1, CampaignInvariant, PTL

\* However a recipient's entry is reclaimed, repeated or left, it is written to
\* once until a person retries it.
THEOREM SentOnceHolds == Spec => []SentOnce

<1>1. Inv => SentOnce
  BY DEF Inv
<1>. QED
  BY <1>1, CampaignInvariant, PTL

\* No request is under way for a campaign that is paused, cancelled or on a
\* later generation.
THEOREM SentWhileRunningHolds == Spec => []SentWhileRunning

<1>1. Inv => SentWhileRunning
  BY DEF Inv
<1>. QED
  BY <1>1, CampaignInvariant, PTL

\* No handler's compensation and no worker's completion revives a cancelled
\* campaign.
THEOREM CancelFinalHolds == Spec => CancelFinal

<1>1. ASSUME Inv, [Next]_vars PROVE [KeepsCancelled]_vars
  <2>. SUFFICES ASSUME campaign = "cancelled", Next PROVE campaign' = "cancelled"
    BY <1>1 DEF KeepsCancelled
  <2>1. CASE StartCampaign \/ RetryFailed \/ PauseCampaign \/ CancelCampaign
    BY <2>1 DEF StartCampaign, RetryFailed, PauseCampaign, CancelCampaign, Turn
  <2>2. ASSUME NEW g \in Gens, Enqueue(g) \/ EnqueueFails(g) \/ Unstart(g) \/ Unretry(g)
        PROVE  campaign' = "cancelled"
    BY <2>2 DEF Enqueue, EnqueueFails, Unstart, Unretry, Latest
  <2>3. ASSUME NEW r \in Recipients, Receipt(r)
        PROVE  campaign' = "cancelled"
    BY <2>3 DEF Receipt
  <2>4. ASSUME NEW w \in Workers, Read(w) \/ Reclaim(w) \/ Restart(w)
        PROVE  campaign' = "cancelled"
    BY <2>4 DEF Read, Reclaim, Restart, Take, Stream
  <2>5. ASSUME NEW w \in Workers, MirrorFails(w) \/ GiveUp(w) \/ Crash(w)
        PROVE  campaign' = "cancelled"
    BY <2>5 DEF MirrorFails, GiveUp, Crash
  <2>6. ASSUME NEW w \in Workers, Handle(w)
        PROVE  campaign' = "cancelled"
    BY <2>6 DEF Handle, Admit, Prepare, Mirror, Release, Attempt, Answer, Recover, Count,
                Complete, Ack, Apart
  <2>. QED
    BY <2>1, <2>2, <2>3, <2>4, <2>5, <2>6 DEF Next
<1>. QED
  BY <1>1, CampaignInvariant, PTL DEF Spec, CancelFinal

-----------------------------------------------------------------------------
(* The counters                                                            *)

\* The recipients of some statuses are a finite set.
LEMMA CountIsNat ==
  ASSUME NEW S
  PROVE  IsFiniteSet(With(S)) /\ Cardinality(With(S)) \in Nat

<1>1. With(S) \subseteq Recipients
  BY DEF With
<1>. QED
  BY <1>1, CampaignAssumption, FS_Subset, FS_CardinalityType

\* One recipient that takes a status moves the counts by at most one.
LEMMA CountsMove ==
  ASSUME RowsOK, NEW r \in Recipients, NEW to, NEW S,
         recipient' = [recipient EXCEPT ![r] = to]
  PROVE  Cardinality(With(S)') =
           IF recipient[r] \in S
           THEN IF to \in S THEN Cardinality(With(S)) ELSE Cardinality(With(S)) - 1
           ELSE IF to \in S THEN Cardinality(With(S)) + 1 ELSE Cardinality(With(S))

<1>1. IsFiniteSet(With(S))
  BY CountIsNat
<1>2. \A q \in Recipients : recipient'[q] = IF q = r THEN to ELSE recipient[q]
  BY DEF RowsOK
<1>3. r \in With(S) <=> recipient[r] \in S
  BY DEF With
<1>4. CASE recipient[r] \in S <=> to \in S
  <2>1. With(S)' = With(S)
    BY <1>2, <1>4 DEF With
  <2>. QED
    BY <1>4, <2>1
<1>5. CASE recipient[r] \in S /\ to \notin S
  <2>1. With(S)' = With(S) \ {r}
    BY <1>2, <1>5 DEF With
  <2>. QED
    BY <1>1, <1>3, <1>5, <2>1, FS_RemoveElement
<1>6. CASE recipient[r] \notin S /\ to \in S
  <2>1. With(S)' = With(S) \cup {r}
    BY <1>2, <1>6 DEF With
  <2>. QED
    BY <1>1, <1>3, <1>6, <2>1, FS_AddElement
<1>. QED
  BY <1>4, <1>5, <1>6

\* So does the number a counter is to be.
LEMMA CountedMoves ==
  ASSUME RowsOK, NEW r \in Recipients, NEW to, NEW status,
         recipient' = [recipient EXCEPT ![r] = to]
  PROVE  /\ Counted(status) \in Nat
         /\ recipient[r] \in Counts[status] => Counted(status) > 0
         /\ Counted(status)' =
              IF recipient[r] \in Counts[status]
              THEN IF to \in Counts[status] THEN Counted(status) ELSE Counted(status) - 1
              ELSE IF to \in Counts[status] THEN Counted(status) + 1 ELSE Counted(status)

<1>1. Counted(status) \in Nat
  BY CountIsNat DEF Counted
<1>2. ASSUME recipient[r] \in Counts[status] PROVE Counted(status) > 0
  <2>1. With(Counts[status]) # {}
    BY <1>2 DEF With
  <2>. QED
    BY <1>1, <2>1, CountIsNat, FS_EmptySet DEF Counted
<1>. QED
  BY <1>1, <1>2, CountsMove DEF Counted

\* The transaction that settles a pending recipient keeps them in step.
LEMMA SettleKeepsCounters ==
  ASSUME RowsOK, CountersAgree, drift' = drift,
         NEW r \in Recipients, NEW to \in {"sent", "failed"},
         recipient[r] = "pending", Settle(r, to)
  PROVE  CountersAgree'

<1>1. recipient' = [recipient EXCEPT ![r] = to]
  BY DEF Settle
<1>2. /\ Counted("sent")' = IF to = "sent" THEN Counted("sent") + 1 ELSE Counted("sent")
      /\ Counted("failed")' = IF to = "failed" THEN Counted("failed") + 1 ELSE Counted("failed")
      /\ Counted("delivered")' = Counted("delivered")
      /\ Counted("read")' = Counted("read")
  <2>1. /\ to \in Counts["sent"] <=> to = "sent"
        /\ to \in Counts["failed"] <=> to = "failed"
        /\ to \notin Counts["delivered"] /\ to \notin Counts["read"]
        /\ \A status \in {"sent", "delivered", "read", "failed"} : "pending" \notin Counts[status]
    BY DEF Counts
  <2>. QED
    BY <1>1, <2>1, CountedMoves
<1>. QED
  BY <1>2 DEF CountersAgree, Settle

\* So does a receipt, except that what it adds to delivered and read it leaves
\* out, and what it takes away it may leave in, is for a recipient that lagged.
LEMMA ReceiptKeepsCounters ==
  ASSUME Inv, CountersAgree, NEW r \in Recipients, Receipt(r)
  PROVE  CountersAgree'

<1>1. PICK to \in {"delivered", "read", "failed"} :
        Rank[message[r]] < Rank[to] /\ (Projected(r, to) \/ Unprojected)
  BY DEF Receipt
<1>2. CASE Unprojected
  BY <1>2 DEF Unprojected, CountersAgree, Counted, With, counters
<1>3. CASE Projected(r, to)
  <2>. SUFFICES ASSUME "restored" \notin drift PROVE CountersAgree'
    BY <1>3 DEF CountersAgree, Projected
  <2>1. /\ sent = Counted("sent") /\ failed = Counted("failed")
        /\ delivered <= Counted("delivered") /\ read <= Counted("read")
        /\ drift = {} => delivered = Counted("delivered") /\ read = Counted("read")
    BY DEF CountersAgree
  <2>2. recipient' = [recipient EXCEPT ![r] = to]
    BY <1>3 DEF Projected
  <2>3. sent \in Nat /\ delivered \in Nat /\ read \in Nat /\ failed \in Nat
    BY DEF Inv, RowsOK
  <2>4. /\ recipient[r] \in Counts["sent"] /\ message[r] \in Counts["sent"]
        /\ recipient[r] \in Counts["delivered"] => message[r] \in Counts["delivered"]
        /\ recipient[r] \in Counts["read"] => message[r] \in Counts["read"]
    <3>1. recipient[r] \in Statuses /\ message[r] \in Statuses \ {"pending", "failed"}
      BY <1>1 DEF Inv, RowsOK, Receipt, Rank, Statuses
    <3>2. recipient[r] = message[r]
            \/ (recipient[r] # "pending" /\ Rank[recipient[r]] < Rank[message[r]])
      BY DEF Inv, Behind
    <3>. QED
      BY <3>1, <3>2 DEF Rank, Statuses, Counts
  <2>5. sent' = Counted("sent")'
    <3>1. sent' = IF to \in Counts["sent"] THEN sent ELSE sent - 1
      <4>1. sent > 0
        BY <2>1, <2>2, <2>4, CountedMoves DEF Inv
      <4>. QED
        BY <1>3, <2>4, <4>1 DEF Projected, Moved
    <3>. QED
      BY <2>1, <2>2, <2>4, <3>1, CountedMoves DEF Inv
  <2>6. failed' = Counted("failed")'
    <3>1. recipient[r] \notin Counts["failed"] /\ message[r] \notin Counts["failed"]
      BY <2>4 DEF Counts
    <3>2. failed' = IF to \in Counts["failed"] THEN failed + 1 ELSE failed
      BY <1>3, <3>1 DEF Projected, Moved
    <3>. QED
      BY <2>1, <2>2, <3>1, <3>2, CountedMoves DEF Inv
  <2>7. delivered' <= Counted("delivered")' /\ read' <= Counted("read")'
    <3>1. ASSUME NEW status \in {"delivered", "read"}, NEW count \in Nat,
                 count <= Counted(status),
                 recipient[r] \in Counts[status] => message[r] \in Counts[status]
          PROVE  Moved(count, status, message[r], to) <= Counted(status)'
      <4>1. /\ Counted(status) \in Nat
            /\ recipient[r] \in Counts[status] => Counted(status) > 0
            /\ Counted(status)' =
                 IF recipient[r] \in Counts[status]
                 THEN IF to \in Counts[status] THEN Counted(status) ELSE Counted(status) - 1
                 ELSE IF to \in Counts[status] THEN Counted(status) + 1 ELSE Counted(status)
        BY <2>2, CountedMoves DEF Inv
      <4>2. CASE to \in Counts[status]
        BY <3>1, <4>1, <4>2 DEF Moved
      <4>3. CASE to \notin Counts[status]
        BY <3>1, <4>1, <4>3 DEF Moved
      <4>. QED
        BY <4>2, <4>3
    <3>. QED
      BY <1>3, <2>1, <2>3, <2>4, <3>1 DEF Projected
  <2>8. ASSUME drift' = {} PROVE delivered' = Counted("delivered")' /\ read' = Counted("read")'
    <3>1. drift = {} /\ recipient[r] = message[r]
      BY <1>3, <2>8 DEF Projected
    <3>2. ASSUME NEW status \in {"delivered", "read"}
          PROVE  Moved(Counted(status), status, message[r], to) = Counted(status)'
      BY <2>2, <3>1, CountedMoves DEF Moved, Inv
    <3>. QED
      BY <1>3, <2>1, <3>1, <3>2 DEF Projected
  <2>. QED
    BY <2>5, <2>6, <2>7, <2>8 DEF CountersAgree
<1>. QED
  BY <1>1, <1>2, <1>3

\* A retry takes back what it made pending again.
LEMMA RetryKeepsCounters ==
  ASSUME RowsOK, CountersAgree, RetryFailed
  PROVE  CountersAgree'

<1>. SUFFICES ASSUME "restored" \notin drift PROVE CountersAgree'
  BY DEF CountersAgree, RetryFailed, Begin
<1>1. recipient' = [r \in Recipients |->
                     IF r \in With({"failed"}) THEN "pending" ELSE recipient[r]]
  BY DEF RetryFailed
<1>2. /\ With(Counts["sent"])' = With(Counts["sent"])
      /\ With(Counts["delivered"])' = With(Counts["delivered"])
      /\ With(Counts["read"])' = With(Counts["read"])
      /\ With(Counts["failed"])' = {} /\ Counts["failed"] = {"failed"}
  BY <1>1 DEF With, Counts
<1>3. /\ Counted("sent")' = Counted("sent") /\ Counted("delivered")' = Counted("delivered")
      /\ Counted("read")' = Counted("read") /\ Counted("failed")' = 0
  BY <1>2, FS_EmptySet DEF Counted
<1>4. failed = Cardinality(With({"failed"})) => failed' = 0
  BY CountIsNat DEF RetryFailed
<1>5. failed = Counted("failed")
  BY DEF CountersAgree
<1>6. UNCHANGED <<sent, delivered, read, drift>>
  BY DEF RetryFailed, Begin
<1>. QED
  BY <1>2, <1>3, <1>4, <1>5, <1>6 DEF CountersAgree, Counted

\* Its compensation puts back the counters it remembers, which are right if
\* nobody moved them: drift records that somebody did.
LEMMA UnretryKeepsCounters ==
  ASSUME Inv, CountersAgree, NEW g \in Gens, Unretry(g)
  PROVE  CountersAgree'

<1>1. CASE UNCHANGED <<campaign, recipient, results, drift>>
  BY <1>1 DEF CountersAgree, Counted, With, results, counters
<1>2. CASE /\ Pristine(g)
           /\ Put(g, "failed")
           /\ sent' = prior[g][2] /\ delivered' = prior[g][3]
           /\ read' = prior[g][4] /\ failed' = prior[g][5]
           /\ drift' = IF Unmoved(g) THEN drift ELSE drift \cup {"restored"}
  <2>. SUFFICES ASSUME "restored" \notin drift' PROVE CountersAgree'
    BY DEF CountersAgree
  <2>1. Unmoved(g) /\ drift' = drift
    BY <1>2
  <2>2. /\ UNCHANGED <<sent, delivered, read>>
        /\ failed' = failed + Cardinality(batch[g])
    BY <1>2, <2>1 DEF Unmoved
  <2>3. batch[g] \subseteq Recipients /\ \A r \in batch[g] : recipient[r] = "pending"
    BY <1>2 DEF Inv, HandlersOK, Pristine
  <2>4. /\ With(Counts["sent"])' = With(Counts["sent"])
        /\ With(Counts["delivered"])' = With(Counts["delivered"])
        /\ With(Counts["read"])' = With(Counts["read"])
        /\ With(Counts["failed"])' = With(Counts["failed"]) \cup batch[g]
        /\ With(Counts["failed"]) \cap batch[g] = {}
    BY <1>2, <2>3 DEF With, Put, Counts
  <2>5. Counted("failed")' = Counted("failed") + Cardinality(batch[g])
    <3> DEFINE F == With(Counts["failed"])
    <3>1. IsFiniteSet(batch[g])
      BY <2>3, CampaignAssumption, FS_Subset
    <3>2. IsFiniteSet(F) /\ Cardinality(F) \in Nat
      BY CountIsNat
    <3>3. Cardinality(F \cup batch[g])
            = Cardinality(F) + Cardinality(batch[g]) - Cardinality(F \cap batch[g])
      BY <3>1, <3>2, FS_Union
    <3>4. Cardinality(F \cap batch[g]) = 0
      BY <2>4, FS_EmptySet
    <3>5. Cardinality(batch[g]) \in Nat
      BY <3>1, FS_CardinalityType
    <3>6. Counted("failed")' = Cardinality(F \cup batch[g]) /\ Counted("failed") = Cardinality(F)
      BY Zenon, <2>4 DEF Counted
    <3>. QED
      BY <3>2, <3>3, <3>4, <3>5, <3>6
  <2>6. /\ Counted("sent")' = Counted("sent") /\ Counted("delivered")' = Counted("delivered")
        /\ Counted("read")' = Counted("read")
    BY <2>4 DEF Counted
  <2>. QED
    BY <2>1, <2>2, <2>5, <2>6 DEF CountersAgree
<1>. QED
  BY <1>1, <1>2 DEF Unretry

\* Whatever is handled twice, a recipient is counted once.
THEOREM CountersAgreeHolds == Spec => []CountersAgree

<1>1. Init => CountersAgree
  <2>. SUFFICES ASSUME Init PROVE CountersAgree
    OBVIOUS
  <2>1. \A status \in {"sent", "delivered", "read", "failed"} : With(Counts[status]) = {}
    BY DEF Init, With, Counts
  <2>2. \A status \in {"sent", "delivered", "read", "failed"} : Counted(status) = 0
    BY <2>1, FS_EmptySet DEF Counted
  <2>. QED
    BY <2>2 DEF Init, CountersAgree
<1>2. ASSUME Inv, CountersAgree, [Next]_vars PROVE CountersAgree'
  <2>. DEFINE Still == UNCHANGED <<recipient, sent, delivered, read, failed, drift>>
  <2>1. Still => CountersAgree'
    BY <1>2 DEF CountersAgree, Counted, With
  <2>2. CASE StartCampaign \/ PauseCampaign \/ CancelCampaign \/ UNCHANGED vars
    BY <2>1, <2>2 DEF StartCampaign, PauseCampaign, CancelCampaign, Turn, Begin, vars,
                      counters, results, rows, history
  <2>3. CASE RetryFailed
    BY <1>2, <2>3, RetryKeepsCounters DEF Inv
  <2>4. ASSUME NEW g \in Gens, Enqueue(g) \/ EnqueueFails(g) \/ Unstart(g) \/ Unretry(g)
        PROVE  CountersAgree'
    BY <1>2, <2>1, <2>4, UnretryKeepsCounters DEF Enqueue, EnqueueFails, Unstart, counters, results, rows
  <2>5. ASSUME NEW r \in Recipients, Receipt(r)
        PROVE  CountersAgree'
    BY <1>2, <2>5, ReceiptKeepsCounters
  <2>6. ASSUME NEW w \in Workers, Read(w) \/ Reclaim(w) \/ Restart(w)
        PROVE  CountersAgree'
    BY <2>1, <2>6 DEF Read, Reclaim, Restart, Take, Stream, counters, results, rows, history
  <2>7. ASSUME NEW w \in Workers, MirrorFails(w) \/ GiveUp(w) \/ Crash(w)
        PROVE  CountersAgree'
    BY <2>1, <2>7 DEF MirrorFails, GiveUp, Crash, counters, results, rows, history
  <2>8. ASSUME NEW w \in Workers, Handle(w)
        PROVE  CountersAgree'
    <3>1. CASE Admit(w)
      <4>1. AdmitLate(w) \/ AdmitGo(w) => Still
        BY <3>1 DEF Admit, AdmitLate, AdmitGo, Apart, counters, results, rows
      <4>2. CASE AdmitRefused(w)
        BY <1>2, <2>1, <3>1, <4>2, JobsArePairs, SettleKeepsCounters
           DEF Inv, Admit, AdmitRefused, Apart, counters, results
      <4>. QED
        BY <2>1, <3>1, <4>1, <4>2 DEF Admit
    <3>2. CASE Prepare(w)
      <4>1. PrepareLate(w) \/ PrepareClaim(w) => Still
        BY <3>2 DEF Prepare, PrepareLate, PrepareClaim, Apart, counters, results, rows
      <4>2. CASE PrepareClaimed(w) \/ PrepareRefused(w)
        BY <1>2, <3>2, <4>2, JobsArePairs, SettleKeepsCounters
           DEF Inv, Prepare, PrepareClaimed, PrepareRefused, Apart
      <4>. QED
        BY <2>1, <3>2, <4>1, <4>2 DEF Prepare
    <3>3. CASE Attempt(w)
      <4>1. AttemptSend(w) => Still
        BY <3>3 DEF Attempt, AttemptSend, Apart, counters, results
      <4>2. CASE AttemptRefused(w)
        BY <1>2, <2>1, <3>3, <4>2, JobsArePairs, SettleKeepsCounters
           DEF Inv, Attempt, AttemptRefused, Apart, Mine, counters, results
      <4>. QED
        BY <2>1, <3>3, <4>1, <4>2 DEF Attempt
    <3>4. CASE Answer(w)
      <4>1. pc[w] = "sending" /\ recipient[at[w][1]] = "pending" /\ drift' = drift
        BY <1>2, <3>4 DEF Inv, Sending, Answer, Mine, history
      <4>2. PICK what \in {"sent", "failed"} :
              Settle(at[w][1], what) \/ UNCHANGED <<recipient, results>>
        BY <3>4 DEF Answer
      <4>. QED
        BY <1>2, <2>1, <4>1, <4>2, JobsArePairs, SettleKeepsCounters DEF Inv, counters, results
    <3>5. CASE Recover(w)
      <4>1. RecoverLate(w) \/ RecoverLost(w) => Still
        BY <3>5 DEF Recover, RecoverLate, RecoverLost, counters, results, history
      <4>2. CASE Recovered(w)
        <5>1. /\ recipient[at[w][1]] = "pending" /\ ans[w] \in {"sent", "failed"}
              /\ drift' = drift
          BY <1>2, <3>5, <4>2 DEF Inv, OthersOK, Sending, Recover, Recovered, Mine, history
        <5>. QED
          BY <1>2, <3>5, <4>2, <5>1, JobsArePairs, SettleKeepsCounters DEF Inv, Recover, Recovered
      <4>. QED
        BY <2>1, <3>5, <4>1, <4>2 DEF Recover
    <3>6. CASE Mirror(w) \/ Release(w) \/ Count(w) \/ Complete(w) \/ Ack(w)
      BY <2>1, <3>6 DEF Mirror, Release, Count, Complete, Ack, Apart, counters, results, rows, history
    <3>. QED
      BY <2>8, <3>1, <3>2, <3>3, <3>4, <3>5, <3>6 DEF Handle
  <2>. QED
    BY <1>2, <2>2, <2>3, <2>4, <2>5, <2>6, <2>7, <2>8 DEF Next
<1>3. Inv /\ CountersAgree /\ [Next]_vars => CountersAgree'
  BY <1>2
<1>. QED
  BY <1>1, <1>3, CampaignInvariant, PTL DEF Spec
-----------------------------------------------------------------------------
(* The mailing                                                             *)

\* One worker at a time holds the campaign for its request.
OneSends ==
    \A v, w \in Workers : pc[v] = "sending" /\ pc[w] = "sending" => v = w

\* A step of the campaign is a step of the mailing, or none.
Simulates == Round!Next \/ UNCHANGED Round!vars

\* Only this worker moves.
Elsewhere(w) == \A v \in Workers \ {w} : pc'[v] = pc[v] /\ at'[v] = at[v]

LEMMA MovesAlone ==
  ASSUME StepsOK, NEW w \in Workers, NEW step, Goto(w, step),
         UNCHANGED at \/ \E x : at' = [at EXCEPT ![w] = x]
  PROVE  Elsewhere(w) /\ pc'[w] = step
<1>1. \A v \in Workers : pc'[v] = IF v = w THEN step ELSE pc[v]
  BY DEF StepsOK, Goto
<1>2. \A v \in Workers \ {w} : at'[v] = at[v]
  BY DEF StepsOK
<1>. QED BY <1>1, <1>2 DEF Elsewhere

\* A worker that is not at its request, and does not come to it, leaves
\* those who are written to.
LEMMA TryingStays ==
  ASSUME NEW w \in Workers, Elsewhere(w), pc[w] # "sending", pc'[w] # "sending", OneSends
  PROVE  Trying' = Trying /\ OneSends'
<1>1. \A v \in Workers : pc'[v] = "sending" <=> pc[v] = "sending"
  BY DEF Elsewhere
<1>2. \A v \in Workers : pc[v] = "sending" => at'[v] = at[v]
  BY DEF Elsewhere
<1>3. {v \in Workers : pc'[v] = "sending"} = {v \in Workers : pc[v] = "sending"}
  BY <1>1
<1>. QED BY <1>1, <1>2, <1>3 DEF Trying, OneSends

LEMMA TryingBegins ==
  ASSUME NEW w \in Workers, Elsewhere(w), CampaignFree, pc'[w] = "sending", UNCHANGED at
  PROVE  Trying = {} /\ Trying' = {at[w][1]} /\ OneSends'
<1>1. {v \in Workers : pc[v] = "sending"} = {} BY DEF CampaignFree
<1>2. {v \in Workers : pc'[v] = "sending"} = {w} BY DEF CampaignFree, Elsewhere
<1>. QED BY <1>1, <1>2 DEF Trying, OneSends

LEMMA TryingEnds ==
  ASSUME NEW w \in Workers, Elsewhere(w), OneSends, pc[w] = "sending", pc'[w] # "sending"
  PROVE  Trying = {at[w][1]} /\ Trying' = {} /\ OneSends'
<1>1. {v \in Workers : pc[v] = "sending"} = {w} BY DEF OneSends
<1>2. {v \in Workers : pc'[v] = "sending"} = {} BY DEF OneSends, Elsewhere
<1>. QED BY <1>1, <1>2 DEF Trying, OneSends

LEMMA FreeTriesNone == CampaignFree <=> Trying = {}
  BY DEF CampaignFree, Trying

\* Nothing a mailing is about changes.
LEMMA NothingChanges ==
  ASSUME UNCHANGED <<campaign, recipient, requests>>, Trying' = Trying
  PROVE  Simulates
  BY DEF Simulates, Round!vars, State, Reached

\* A worker goes on without an outcome.
LEMMA QuietStep ==
  ASSUME Inv, OneSends, NEW w \in Workers, NEW step, step # "sending", pc[w] # "sending",
         Goto(w, step), UNCHANGED at \/ \E x : at' = [at EXCEPT ![w] = x],
         UNCHANGED <<campaign, recipient, requests>>
  PROVE  Simulates /\ OneSends'
<1>1. Elsewhere(w) /\ pc'[w] = step BY MovesAlone DEF Inv
<1>2. Trying' = Trying /\ OneSends' BY <1>1, TryingStays
<1>. QED BY <1>2, NothingChanges

\* An outcome is recorded.
LEMMA SettleRecords ==
  ASSUME Inv, NEW r \in Recipients, NEW what \in {"sent", "failed"}, Settle(r, what),
         recipient[r] = "pending", Trying \subseteq {r}, Trying' = {},
         UNCHANGED <<campaign, requests>>, what = "sent" => requests[r] = 1
  PROVE  Simulates
<1>1. Round!Becomes({r}, what)
  BY DEF Settle, Round!Becomes, Inv, RowsOK
<1>2. what = "sent" => r \in Reached BY DEF Reached
<1>3. State' = State /\ Reached' = Reached BY DEF State, Reached
<1>4. Round!Record(r, what) BY <1>1, <1>2, <1>3 DEF Round!Record
<1>. QED BY <1>4 DEF Simulates, Round!Next

LEMMA SettleStep ==
  ASSUME Inv, OneSends, NEW w \in Workers, pc[w] # "idle", CampaignFree,
         NEW step, step # "sending", Goto(w, step), UNCHANGED <<at, campaign, requests>>,
         NEW what \in {"sent", "failed"}, Settle(at[w][1], what),
         recipient[at[w][1]] = "pending", what = "sent" => requests[at[w][1]] = 1
  PROVE  Simulates /\ OneSends'
<1>1. at[w][1] \in Recipients BY JobsArePairs
<1>2. pc[w] # "sending" BY DEF CampaignFree
<1>3. Elsewhere(w) /\ pc'[w] = step BY MovesAlone DEF Inv
<1>4. Trying = {} /\ Trying' = {} /\ OneSends' BY <1>2, <1>3, TryingStays, FreeTriesNone
<1>. QED BY <1>1, <1>4, SettleRecords

\* The control plane turns a mailing, begins a round, or takes one back.
LEMMA ControlSimulates ==
  ASSUME Inv, OneSends,
         StartCampaign \/ RetryFailed \/ PauseCampaign \/ CancelCampaign
           \/ \E g \in Gens : Enqueue(g) \/ EnqueueFails(g) \/ Unstart(g) \/ Unretry(g)
  PROVE  Simulates /\ OneSends'
<1>1. UNCHANGED <<pc, at>> /\ Trying' = Trying /\ OneSends'
  <2>1. UNCHANGED <<pc, at>>
    BY DEF StartCampaign, RetryFailed, PauseCampaign, CancelCampaign, Enqueue, EnqueueFails,
           Unstart, Unretry, Turn, Aside, minds
  <2>. QED BY <2>1 DEF Trying, OneSends
<1>2. ASSUME CampaignFree, campaign # "cancelled", UNCHANGED <<recipient, requests>>,
             State' \in {"idle", "running", "cancelled"}
      PROVE  Simulates
  <2>1. Round!Turn BY <1>1, <1>2, FreeTriesNone DEF Round!Turn, State, Reached
  <2>. QED BY <2>1 DEF Simulates, Round!Next
<1>3. CASE StartCampaign \/ PauseCampaign \/ CancelCampaign
  <2>1. /\ CampaignFree /\ campaign # "cancelled" /\ UNCHANGED <<recipient, requests>>
        /\ State' \in {"idle", "running", "cancelled"}
    BY <1>3 DEF StartCampaign, PauseCampaign, CancelCampaign, Begin, Turn, Aside, rows, State
  <2>. QED BY <1>1, <1>2, <2>1
<1>4. CASE RetryFailed
  <2> DEFINE again == With({"failed"})
  <2>1. /\ CampaignFree /\ State = "idle" /\ State' = "running" /\ again # {}
        /\ Round!Becomes(again, "pending")
    BY <1>4 DEF RetryFailed, Begin, State, Round!Becomes
  <2>2. Reached' = Reached \ again
    <3>1. requests' = [r \in Recipients |-> IF r \in again THEN 0 ELSE requests[r]]
      BY <1>4 DEF RetryFailed
    <3>. QED BY <3>1 DEF Reached
  <2>3. again \in SUBSET Recipients /\ \A r \in again : recipient[r] = "failed" BY DEF With
  <2>4. Round!Retry(again) BY <1>1, <2>1, <2>2, <2>3, FreeTriesNone DEF Round!Retry
  <2>. QED BY <1>1, <2>3, <2>4 DEF Simulates, Round!Next
<1>5. ASSUME NEW g \in Gens, Enqueue(g) \/ EnqueueFails(g) PROVE Simulates
  <2>1. UNCHANGED <<campaign, recipient, requests>>
    BY <1>5 DEF Enqueue, EnqueueFails, Aside, rows
  <2>. QED BY <1>1, <2>1, NothingChanges
<1>6. ASSUME NEW g \in Gens, Unstart(g) PROVE Simulates
  <2>1. CampaignFree /\ UNCHANGED <<recipient, requests>> BY <1>6 DEF Unstart, Aside, rows
  <2>2. CASE Latest(g)
    <3>1. campaign = "processing" /\ campaign' = prior[g][1] BY <1>6, <2>2 DEF Unstart, Latest
    <3>2. State' \in {"idle", "running", "cancelled"} BY DEF State
    <3>. QED BY <1>2, <2>1, <3>1, <3>2
  <2>3. CASE ~Latest(g)
    BY <1>1, <1>6, <2>1, <2>3, NothingChanges DEF Unstart
  <2>. QED BY <2>2, <2>3
<1>7. ASSUME NEW g \in Gens, Unretry(g) PROVE Simulates
  <2>1. CampaignFree /\ requests' = requests BY <1>7 DEF Unretry, Aside
  <2>2. CASE ~(Latest(g) /\ Pristine(g))
    <3>1. UNCHANGED <<campaign, recipient>> BY <1>7, <2>2 DEF Unretry
    <3>. QED BY <1>1, <2>1, <3>1, NothingChanges
  <2>3. CASE Latest(g) /\ Pristine(g)
    <3>1. /\ campaign = "processing" /\ campaign' = prior[g][1]
          /\ Round!Becomes(batch[g], "failed")
      BY <1>7, <2>3 DEF Unretry, Put, Latest, Round!Becomes
    <3>2. batch[g] \in SUBSET Recipients BY DEF Inv, HandlersOK
    <3>3. prior[g][1] \in {"none", "draft", "paused", "completed"} BY DEF Inv, HandlersOK
    <3>4. State = "running" /\ State' = "idle" BY <3>1, <3>3 DEF State
    <3>5. \A r \in batch[g] : recipient[r] = "pending" /\ r \notin Reached
      BY <2>3, <3>2 DEF Pristine, Inv, Unclaimed, Reached
    <3>6. Round!Withdraw(batch[g])
      BY <1>1, <2>1, <3>1, <3>4, <3>5, FreeTriesNone DEF Round!Withdraw, Reached
    <3>. QED BY <3>2, <3>6 DEF Simulates, Round!Next
  <2>. QED BY <2>2, <2>3
<1>. QED BY <1>1, <1>3, <1>4, <1>5, <1>6, <1>7

\* A receipt moves what was sent, or only its message.
LEMMA ReceiptSimulates ==
  ASSUME Inv, OneSends, NEW r \in Recipients, Receipt(r)
  PROVE  Simulates /\ OneSends'
<1>1. UNCHANGED <<pc, at, campaign, requests>> BY DEF Receipt, Aside, minds
<1>2. Trying' = Trying /\ State' = State /\ Reached' = Reached /\ OneSends'
  BY <1>1 DEF Trying, State, Reached, OneSends
<1>3. PICK to \in {"delivered", "read", "failed"} :
        Rank[message[r]] < Rank[to] /\ (Projected(r, to) \/ Unprojected)
  BY DEF Receipt
<1>4. CASE Unprojected BY <1>1, <1>2, <1>4, NothingChanges DEF Unprojected
<1>5. CASE Projected(r, to)
  <2>1. CampaignFree /\ Round!Becomes({r}, to)
    BY <1>5 DEF Projected, Round!Becomes, Inv, RowsOK
  <2>2. recipient[r] \in DOMAIN Round!Later /\ to \in Round!Later[recipient[r]]
    <3>1. recipient[r] \in Statuses /\ message[r] \in Statuses \ {"pending"}
      BY DEF Inv, RowsOK, Receipt
    <3>2. recipient[r] # "pending" /\ Rank[recipient[r]] < Rank[to]
      BY <1>3, <3>1 DEF Inv, Behind, Rank, Statuses
    <3>3. recipient[r] \in {"sent", "delivered", "read"} BY <3>1, <3>2 DEF Rank, Statuses
    <3>4. CASE recipient[r] = "sent" BY <3>4 DEF Round!Later
    <3>5. CASE recipient[r] = "delivered" BY <3>2, <3>5 DEF Rank, Round!Later
    <3>6. CASE recipient[r] = "read" BY <3>2, <3>6 DEF Rank, Round!Later
    <3>. QED BY <3>3, <3>4, <3>5, <3>6
  <2>3. Round!Receipt(r) BY <1>2, <2>1, <2>2, FreeTriesNone DEF Round!Receipt
  <2>. QED BY <1>2, <2>3 DEF Simulates, Round!Next
<1>. QED BY <1>2, <1>3, <1>4, <1>5

\* Consumers and their entries are no concern of the recipients.
LEMMA StreamSimulates ==
  ASSUME Inv, OneSends, NEW w \in Workers,
         Read(w) \/ Reclaim(w) \/ Restart(w) \/ Ack(w) \/ Release(w) \/ Count(w) \/ GiveUp(w)
           \/ Mirror(w) \/ MirrorFails(w)
  PROVE  Simulates /\ OneSends'
<1>1. CASE Read(w) \/ Reclaim(w)
  <2>1. PICK job \in Jobs : Take(w, job) BY <1>1 DEF Read, Reclaim
  <2>2. /\ Goto(w, "admit") /\ at' = [at EXCEPT ![w] = job] /\ pc[w] # "sending"
        /\ UNCHANGED <<campaign, recipient, requests>>
    BY <2>1 DEF Take, Stream, rows, history
  <2>. QED BY <2>2, QuietStep
<1>2. CASE Restart(w)
  BY <1>2, NothingChanges DEF Restart, Stream, history, rows, Trying, OneSends
<1>3. CASE Ack(w) \/ GiveUp(w)
  <2>1. /\ Goto(w, "idle") /\ at' = [at EXCEPT ![w] = Nobody] /\ pc[w] # "sending"
        /\ UNCHANGED <<campaign, recipient, requests>>
    BY <1>3 DEF Ack, GiveUp, Leave, rows, history
  <2>. QED BY <2>1, QuietStep
<1>4. CASE Release(w)
  <2>1. /\ Goto(w, "idle") /\ at' = [at EXCEPT ![w] = Nobody] /\ pc[w] # "sending"
        /\ UNCHANGED <<campaign, recipient, requests>>
    BY <1>4 DEF Release, Leave, history
  <2>. QED BY <2>1, QuietStep
<1>5. CASE Count(w)
  <2>1. PICK step \in {"complete", "ack"} : Goto(w, step) BY <1>5 DEF Count
  <2>2. pc[w] # "sending" /\ UNCHANGED <<campaign, recipient, requests, at>>
    BY <1>5 DEF Count, Apart, rows
  <2>. QED BY <2>1, <2>2, QuietStep
<1>6. CASE Mirror(w) \/ MirrorFails(w)
  <2>1. PICK step \in {"attempt", "release"} : Goto(w, step) BY <1>6 DEF Mirror, MirrorFails
  <2>2. pc[w] # "sending" /\ UNCHANGED <<campaign, recipient, requests, at>>
    BY <1>6 DEF Mirror, MirrorFails, Apart, history
  <2>. QED BY <2>1, <2>2, QuietStep
<1>. QED BY <1>1, <1>2, <1>3, <1>4, <1>5, <1>6

\* A recipient that cannot be written to, or was left unresolved, has failed.
LEMMA PreparationSimulates ==
  ASSUME Inv, OneSends, NEW w \in Workers, Admit(w) \/ Prepare(w)
  PROVE  Simulates /\ OneSends'
<1>1. pc[w] \notin {"sending", "idle"} /\ UNCHANGED <<campaign, requests, at>>
  BY DEF Admit, Prepare, Apart
<1>2. PICK step \in {"ack", "prepare", "check", "mirror"} : Goto(w, step)
  BY DEF Admit, AdmitLate, AdmitGo, AdmitRefused, Prepare, PrepareLate, PrepareClaimed,
         PrepareRefused, PrepareClaim
<1>3. CASE UNCHANGED recipient BY <1>1, <1>2, <1>3, QuietStep
<1>4. CASE ~UNCHANGED recipient
  <2>1. /\ CampaignFree /\ recipient[at[w][1]] = "pending" /\ Settle(at[w][1], "failed")
    BY <1>4 DEF Admit, AdmitLate, AdmitGo, AdmitRefused, Prepare, PrepareLate, PrepareClaimed,
                PrepareRefused, PrepareClaim, rows
  <2>. QED BY <1>1, <1>2, <2>1, SettleStep
<1>. QED BY <1>3, <1>4

\* One request is made, and its outcome recorded, by whoever has the claim.
LEMMA RequestSimulates ==
  ASSUME Inv, OneSends, NEW w \in Workers, Attempt(w) \/ Answer(w) \/ Recover(w)
  PROVE  Simulates /\ OneSends'
<1>1. pc[w] # "idle" /\ at[w][1] \in Recipients
  BY JobsArePairs DEF Attempt, Answer, Recover
<1>2. CASE Attempt(w) /\ AttemptRefused(w)
  <2>1. /\ CampaignFree /\ pc[w] # "sending" /\ Goto(w, "check")
        /\ UNCHANGED <<campaign, requests, at>>
    BY <1>2 DEF Attempt, AttemptRefused, Apart
  <2>2. CASE Mine(w)
    BY <1>1, <1>2, <2>1, <2>2, SettleStep DEF AttemptRefused, Mine
  <2>3. CASE ~Mine(w)
    BY <1>2, <2>1, <2>3, QuietStep DEF AttemptRefused
  <2>. QED BY <2>2, <2>3
<1>3. CASE Attempt(w) /\ AttemptSend(w)
  <2>1. /\ CampaignFree /\ pc[w] = "attempt" /\ Mine(w) /\ campaign = "processing"
        /\ Goto(w, "sending") /\ UNCHANGED <<campaign, recipient, at>>
        /\ requests' = [requests EXCEPT ![at[w][1]] = @ + 1]
    BY <1>3 DEF Attempt, AttemptSend, Apart, Current
  <2>2. requests[at[w][1]] = 0 BY <2>1 DEF Inv, Approaching
  <2>3. Reached' = Reached \cup {at[w][1]} /\ at[w][1] \notin Reached
    BY <1>1, <2>1, <2>2 DEF Reached, Inv, OthersOK
  <2>4. Elsewhere(w) /\ pc'[w] = "sending" BY <2>1, MovesAlone DEF Inv
  <2>5. Trying = {} /\ Trying' = {at[w][1]} /\ OneSends' BY <2>1, <2>4, TryingBegins
  <2>6. State = "running" /\ State' = State BY <2>1 DEF State
  <2>7. Round!Try(at[w][1]) BY <2>1, <2>3, <2>5, <2>6 DEF Round!Try, Mine
  <2>. QED BY <1>1, <2>5, <2>7 DEF Simulates, Round!Next
<1>4. CASE Answer(w)
  <2>1. pc[w] = "sending" /\ UNCHANGED <<campaign, requests, at>>
    BY <1>4 DEF Answer, history
  <2>2. PICK step \in {"check", "recover"} : Goto(w, step) BY <1>4 DEF Answer
  <2>3. Elsewhere(w) /\ pc'[w] # "sending" BY <2>1, <2>2, MovesAlone DEF Inv
  <2>4. Trying = {at[w][1]} /\ Trying' = {} /\ OneSends' BY <2>1, <2>3, TryingEnds
  <2>5. recipient[at[w][1]] = "pending" /\ requests[at[w][1]] = 1
    BY <2>1 DEF Inv, Sending, Mine
  <2>6. \/ \E what \in {"sent", "failed"} : Settle(at[w][1], what)
        \/ UNCHANGED recipient
    BY <1>4 DEF Answer
  <2>7. CASE \E what \in {"sent", "failed"} : Settle(at[w][1], what)
    BY <1>1, <2>1, <2>4, <2>5, <2>7, SettleRecords
  <2>8. CASE UNCHANGED recipient
    <3>1. Round!Lose BY <2>1, <2>4, <2>8 DEF Round!Lose, State, Reached
    <3>. QED BY <2>4, <3>1 DEF Simulates, Round!Next
  <2>. QED BY <2>4, <2>6, <2>7, <2>8
<1>5. CASE Recover(w) /\ Recovered(w)
  <2>1. /\ CampaignFree /\ Mine(w) /\ pc[w] = "recover" /\ Goto(w, "check")
        /\ Settle(at[w][1], ans[w]) /\ UNCHANGED <<campaign, requests, at>>
    BY <1>5 DEF Recover, Recovered, history
  <2>2. requests[at[w][1]] = 1 /\ ans[w] \in {"sent", "failed"}
    BY <2>1 DEF Inv, Sending, OthersOK
  <2>. QED BY <1>1, <2>1, <2>2, SettleStep DEF Mine
<1>6. CASE Recover(w) /\ ~Recovered(w)
  <2>1. pc[w] # "sending" /\ UNCHANGED <<campaign, recipient, requests>>
    BY <1>6 DEF Recover, RecoverLate, RecoverLost, history
  <2>2. \/ Goto(w, "check") /\ UNCHANGED at
        \/ Goto(w, "idle") /\ at' = [at EXCEPT ![w] = Nobody]
    BY <1>6 DEF Recover, RecoverLate, RecoverLost, Leave
  <2>. QED BY <2>1, <2>2, QuietStep
<1>. QED BY <1>2, <1>3, <1>4, <1>5, <1>6 DEF Attempt

\* A worker that counted nothing pending completes what runs.
LEMMA CompleteSimulates ==
  ASSUME Inv, OneSends, NEW w \in Workers, Complete(w)
  PROVE  Simulates /\ OneSends'
<1>1. /\ CampaignFree /\ pc[w] # "sending" /\ Goto(w, "ack")
      /\ UNCHANGED <<recipient, requests, at>>
  BY DEF Complete, rows, history
<1>2. Elsewhere(w) /\ pc'[w] = "ack" BY <1>1, MovesAlone DEF Inv
<1>3. Trying = {} /\ Trying' = Trying /\ OneSends' BY <1>1, <1>2, TryingStays, FreeTriesNone
<1>4. CASE campaign = "processing"
  <2>1. State = "running" /\ State' = "idle" BY <1>4 DEF Complete, State
  <2>2. Round!Turn BY <1>1, <1>3, <2>1 DEF Round!Turn, Reached
  <2>. QED BY <1>3, <2>2 DEF Simulates, Round!Next
<1>5. CASE campaign # "processing"
  <2>1. UNCHANGED campaign BY <1>5 DEF Complete
  <2>. QED BY <1>1, <1>3, <2>1, NothingChanges
<1>. QED BY <1>4, <1>5

\* What was sent by a worker that dies is not known.
LEMMA CrashSimulates ==
  ASSUME Inv, OneSends, NEW w \in Workers, Crash(w)
  PROVE  Simulates /\ OneSends'
<1>1. /\ Goto(w, "idle") /\ at' = [at EXCEPT ![w] = Nobody]
      /\ UNCHANGED <<campaign, recipient, requests>>
  BY DEF Crash, Leave, rows, history
<1>2. CASE pc[w] # "sending" BY <1>1, <1>2, QuietStep
<1>3. CASE pc[w] = "sending"
  <2>1. Elsewhere(w) /\ pc'[w] = "idle" BY <1>1, MovesAlone DEF Inv
  <2>2. Trying' = {} /\ OneSends' BY <1>3, <2>1, TryingEnds
  <2>3. Round!Lose BY <1>1, <2>2 DEF Round!Lose, State, Reached
  <2>. QED BY <2>2, <2>3 DEF Simulates, Round!Next
<1>. QED BY <1>2, <1>3

LEMMA MailingInit == Init => Round!Init /\ OneSends
<1>. SUFFICES ASSUME Init PROVE Round!Init /\ OneSends
  OBVIOUS
<1>1. State = "idle" BY DEF Init, State
<1>2. Reached = {} BY DEF Init, Reached
<1>3. Trying = {} /\ OneSends BY DEF Init, Trying, OneSends
<1>. QED BY <1>1, <1>2, <1>3 DEF Init, Round!Init

LEMMA MailingStep ==
  ASSUME Inv, OneSends, [Next]_vars
  PROVE  Simulates /\ OneSends'
<1>1. CASE \/ StartCampaign \/ RetryFailed \/ PauseCampaign \/ CancelCampaign
           \/ \E g \in Gens : Enqueue(g) \/ EnqueueFails(g) \/ Unstart(g) \/ Unretry(g)
  BY <1>1, ControlSimulates
<1>2. ASSUME NEW r \in Recipients, Receipt(r) PROVE Simulates /\ OneSends'
  BY <1>2, ReceiptSimulates
<1>3. ASSUME NEW w \in Workers,
             Read(w) \/ Reclaim(w) \/ Restart(w) \/ MirrorFails(w) \/ GiveUp(w) \/ Crash(w)
      PROVE  Simulates /\ OneSends'
  BY <1>3, StreamSimulates, CrashSimulates
<1>4. ASSUME NEW w \in Workers, Handle(w) PROVE Simulates /\ OneSends'
  <2>1. CASE Ack(w) \/ Release(w) \/ Count(w) \/ Mirror(w) BY <2>1, StreamSimulates
  <2>2. CASE Admit(w) \/ Prepare(w) BY <2>2, PreparationSimulates
  <2>3. CASE Attempt(w) \/ Answer(w) \/ Recover(w) BY <2>3, RequestSimulates
  <2>4. CASE Complete(w) BY <2>4, CompleteSimulates
  <2>. QED BY <1>4, <2>1, <2>2, <2>3, <2>4 DEF Handle
<1>5. CASE UNCHANGED vars
  BY <1>5, NothingChanges DEF vars, minds, rows, history, Trying, OneSends
<1>. QED BY <1>1, <1>2, <1>3, <1>4, <1>5 DEF Next

\* The campaign implements a mailing, for any number of workers, recipients,
\* generations and faults: whatever is reclaimed, repeated, overrun or lost,
\* each recipient is written to once a round, while the campaign runs, and its
\* outcome decided once; and a round is taken back only from a campaign that
\* still runs it, for recipients that nobody wrote to (RetryFailed,
\* attemptPreparedCampaignDelivery, recoverCampaignDelivery).
THEOREM ImplementsMailingHolds == Spec => ImplementsMailing
<1>1. Init => Inv /\ OneSends /\ Round!Init BY InvInit, MailingInit
<1>2. Inv /\ OneSends /\ [Next]_vars => Inv' /\ OneSends' /\ [Round!Next]_(Round!vars)
  BY InvNext, MailingStep DEF Simulates
<1>. QED BY <1>1, <1>2, PTL DEF Spec, ImplementsMailing, Round!Spec

=============================================================================
