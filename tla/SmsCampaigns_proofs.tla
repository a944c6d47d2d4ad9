------------------------ MODULE SmsCampaigns_proofs ------------------------
(***************************************************************************)
(* Proofs about SmsCampaigns: the inductive invariant of the queue, that a  *)
(* text is posted once and that its outcome stays, for any recipients,      *)
(* requests, preparations and mishaps.                                       *)
(***************************************************************************)
EXTENDS SmsCampaigns, TLAPS

----------------------------------------------------------------------------
(* Type correctness.                                                        *)

LEMMA IdleType == Idle \in Request /\ Idle.at = "idle"
BY SmsAssumption DEF Idle, Request, Ops, CampaignStatuses

LEMMA RestingType == Resting \in JobState /\ Resting.at = "idle" /\ Resting.id = None
BY SmsAssumption DEF Resting, JobState, Outcomes

LEMMA CountedType ==
  ASSUME NEW n \in 0..MaxAttempts
  PROVE  Counted(n) \in 0..MaxAttempts
BY SmsAssumption DEF Counted

LEMMA StatusForType ==
  ASSUME NEW outcome \in Outcomes, NEW n \in 0..MaxAttempts
  PROVE  StatusFor(outcome, n) \in TextStatuses
BY DEF StatusFor, TextStatuses

(* What administrators' requests leave alone, and what they make of the rest. *)
LEMMA RequestTypes ==
  ASSUME SmsTypeOK, NEW r \in Requests, RequestStep(r) \/ RequestFails(r)
  PROVE  SmsTypeOK'
<1> USE SmsAssumption, IdleType DEF SmsTypeOK, queue, tokens, history
<1>1. ASSUME NEW op \in Ops, NEW token \in 0..MaxPrepares, ReadCampaign(r, op, token)
      PROVE  SmsTypeOK'
  <2>1. /\ [Idle EXCEPT !.at = "count", !.copy = campaign] \in Request
        /\ [Idle EXCEPT !.at = "write", !.op = op, !.token = token] \in Request
    BY DEF Request
  <2>2. request' \in [Requests -> Request]
    BY <1>1, <2>1 DEF ReadCampaign, Step
  <2> QED
    BY <1>1, <2>2 DEF ReadCampaign
<1>2. CASE CountAudience(r)
  <2>1. [Idle EXCEPT !.at = "clear"] \in Request
    BY DEF Request
  <2>2. request' \in [Requests -> Request]
    BY <1>2, <2>1 DEF CountAudience, Step, Done
  <2>3. campaign' \in CampaignStatuses
    BY <1>2 DEF CountAudience, Request
  <2> QED
    BY <1>2, <2>2, <2>3 DEF CountAudience
<1>3. CASE ClearRecipients(r)
  BY <1>3 DEF ClearRecipients, At, Request
<1>4. ASSUME NEW audience \in SUBSET Phones, FillRecipients(r, audience) PROVE SmsTypeOK'
  <2>1. request' \in [Requests -> Request]
    BY <1>4 DEF FillRecipients, At, Done, Step, Request
  <2> QED
    BY <1>4, <2>1 DEF FillRecipients
<1>5. CASE IssueToken(r)
  BY <1>5 DEF IssueToken, Done, Step, CampaignStatuses
<1>6. CASE SaveCampaign(r)
  <2>1. request' \in [Requests -> Request]
    BY <1>6 DEF SaveCampaign, At, Done, Step, Request, Ops
  <2>2. campaign' \in CampaignStatuses
    BY <1>6 DEF SaveCampaign, StatusAfter, CampaignStatuses
  <2> QED
    BY <1>6, <2>1, <2>2 DEF SaveCampaign
<1>7. CASE MoveTexts(r)
  <2>1. \A p \in Phones : /\ PauseRow(text[p]) \in TextRow
                          /\ ResumeRow(text[p]) \in TextRow
                          /\ CancelRow(text[p]) \in TextRow
    BY DEF PauseRow, ResumeRow, CancelRow, TextRow, TextStatuses
  <2>2. text' \in [Phones -> TextRow]
    BY <1>7, <2>1 DEF MoveTexts
  <2> QED
    BY <1>7, <2>2 DEF MoveTexts, Done, Step
<1>8. CASE ReadRecipients(r)
  <2>0. [request[r] EXCEPT !.at = "find", !.todo = recipients] \in Request
    BY DEF Request
  <2>1. request' \in [Requests -> Request]
    BY <1>8, <2>0 DEF ReadRecipients, Done, Step
  <2> QED
    BY <1>8, <2>1 DEF ReadRecipients
<1>9. ASSUME NEW p \in Phones, FindText(r, p) PROVE SmsTypeOK'
  <2>1. request' \in [Requests -> Request]
    BY <1>9 DEF FindText, Step, Request
  <2> QED
    BY <1>9, <2>1 DEF FindText
<1>10. CASE InsertText(r)
  <2>0. [request[r] EXCEPT !.at = "find", !.phone = None] \in Request
    BY DEF Request
  <2>1. request' \in [Requests -> Request]
    BY <1>10, <2>0 DEF InsertText, Done, Step
  <2>2. text' \in [Phones -> TextRow]
    BY <1>10 DEF InsertText, TextRow, TextStatuses
  <2> QED
    BY <1>10, <2>1, <2>2 DEF InsertText
<1>11. CASE FinishEnqueue(r)
  BY <1>11 DEF FinishEnqueue, Done, Step, CampaignStatuses
<1>12. CASE RequestFails(r)
  BY <1>12 DEF RequestFails, Done, Step
<1> QED
  BY <1>1, <1>2, <1>3, <1>4, <1>5, <1>6, <1>7, <1>8, <1>9, <1>10, <1>11, <1>12
     DEF RequestStep, Ops

(* The steps of the job and its mishaps keep the types.                      *)
LEMMA JobTypes ==
  ASSUME SmsTypeOK, job.at \notin {"idle", "loop"} => job.id \in Phones,
         ListStep \/ Dispatch \/ Caught \/ Breaks \/ Restart
  PROVE  SmsTypeOK'
<1> USE SmsAssumption, IdleType, RestingType DEF SmsTypeOK, desk, tokens, history
<1> DEFINE Types == text' \in [Phones -> TextRow] /\ job' \in JobState
<1>1. \A place \in {"idle", "loop", "take", "gates", "short", "answered", "tally", "complete"} :
         Go(place) => job' \in JobState
  BY DEF Go, JobState
<1>2. NextRow => job' \in JobState
  BY DEF NextRow, JobState
<1>3. \A status \in TextStatuses :
         job.at = "gates" \/ job.at = "answered" => (Save(status) => text' \in [Phones -> TextRow])
  BY DEF Save, TextRow, JobState
<1>4. ASSUME NEW due \in SUBSET Phones, ReadQueue(due) PROVE SmsTypeOK'
  <2>1. list' \subseteq [id : Phones, attempts : 0..MaxAttempts]
    BY <1>4 DEF ReadQueue, TextRow
  <2> QED
    BY <1>1, <1>4, <2>1 DEF ReadQueue
<1>5. ASSUME NEW row \in list, TakeRow(row) PROVE SmsTypeOK'
  <2>1. job' \in JobState
    BY <1>5 DEF TakeRow, JobState
  <2> QED
    BY <1>5, <2>1 DEF TakeRow
<1>6. ASSUME NEW row \in list, PutOff(row) PROVE SmsTypeOK'
  <2>1. text' \in [Phones -> TextRow]
    BY <1>6 DEF PutOff, TextRow, TextStatuses
  <2> QED
    BY <1>6, <2>1 DEF PutOff
<1>7. CASE EndRound
  BY <1>1, <1>7 DEF EndRound
<1>8. CASE Claim
  <2>1. Counted(text[job.id].attempts) \in 0..MaxAttempts
    BY <1>8, CountedType DEF Claim, TextRow
  <2>2. text' \in [Phones -> TextRow]
    BY <1>8, <2>1 DEF Claim, TextRow, TextStatuses
  <2>3. job' \in JobState
    BY <1>2, <1>8, <2>1 DEF Claim, JobState
  <2> QED
    BY <1>8, <2>2, <2>3 DEF Claim
<1>9. ASSUME NEW status \in {"SKIPPED", "FAILED"}, Refuse(status) PROVE SmsTypeOK'
  <2>1. Types
    BY <1>1, <1>3, <1>9 DEF Refuse, TextStatuses
  <2> QED
    BY <1>9, <2>1 DEF Refuse
<1>10. CASE Defer
  <2>1. Types
    BY <1>2, <1>3, <1>10 DEF Defer, TextStatuses
  <2> QED
    BY <1>10, <2>1 DEF Defer
<1>11. CASE RunShort
  <2>1. Types
    BY <1>1, <1>3, <1>11 DEF RunShort, TextStatuses
  <2> QED
    BY <1>11, <2>1 DEF RunShort
<1>12. CASE PauseForCredit
  BY <1>2, <1>12 DEF PauseForCredit, CampaignStatuses, tokens
<1>13. ASSUME NEW outcome \in Outcomes, Post(outcome) PROVE SmsTypeOK'
  <2>1. job' \in JobState
    BY <1>13 DEF Post, JobState
  <2>2. posts' \in [Phones -> Nat]
    BY <1>13 DEF Post
  <2> QED
    BY <1>13, <2>1, <2>2 DEF Post
<1>14. CASE Record
  <2>1. StatusFor(job.outcome, job.attempts) \in TextStatuses
    BY StatusForType DEF JobState
  <2>2. Types
    BY <1>1, <1>2, <1>3, <1>14, <2>1 DEF Record
  <2> QED
    BY <1>14, <2>2 DEF Record
<1>15. CASE CountWaiting
  BY <1>1, <1>2, <1>15 DEF CountWaiting
<1>16. CASE Complete
  BY <1>2, <1>16 DEF Complete, CampaignStatuses, tokens
<1>17. ASSUME NEW lot, Hit(lot) PROVE hits' \in [Phones -> Nat]
  BY <1>17 DEF Hit
<1>18. CASE Caught
  <2>1. job' \in JobState
    BY <1>18 DEF Caught, JobState, Outcomes
  <2>2. hits' \in [Phones -> Nat]
    BY <1>17, <1>18 DEF Caught
  <2> QED
    BY <1>18, <2>1, <2>2 DEF Caught
<1>19. CASE Breaks
  <2>1. hits' \in [Phones -> Nat]
    BY <1>17, <1>19 DEF Breaks
  <2> QED
    BY <1>19, <2>1 DEF Breaks
<1>20. CASE Restart
  <2>1. hits' \in [Phones -> Nat]
    BY <1>17, <1>20 DEF Restart
  <2> QED
    BY <1>20, <2>1 DEF Restart, tokens
<1> QED
  BY <1>4, <1>5, <1>6, <1>7, <1>8, <1>9, <1>10, <1>11, <1>12, <1>13, <1>14, <1>15, <1>16,
     <1>18, <1>19, <1>20 DEF ListStep, Dispatch

LEMMA ReadReportTypes ==
  ASSUME SmsTypeOK, NEW p \in Phones, ReadReport(p)
  PROVE  SmsTypeOK'
<1>1. [id |-> p, status |-> text[p].status, attempts |-> text[p].attempts]
        \in [id : Phones, status : GoneOut, attempts : 0..MaxAttempts]
  BY DEF ReadReport, SmsTypeOK, TextRow, GoneOut
<1> QED
  BY <1>1 DEF ReadReport, SmsTypeOK, desk, history, tokens

LEMMA SaveReportTypes ==
  ASSUME SmsTypeOK, NEW copy \in polled, NEW status \in {copy.status, "DELIVERED", "UNDELIVERED"},
         SaveReport(copy, status)
  PROVE  SmsTypeOK'
<1>1. copy.id \in Phones /\ status \in GoneOut /\ copy.attempts \in 0..MaxAttempts
  BY DEF SmsTypeOK, GoneOut
<1>2. text' \in [Phones -> TextRow]
  BY <1>1 DEF SaveReport, SmsTypeOK, TextRow, TextStatuses, GoneOut
<1> QED
  BY <1>2 DEF SaveReport, SmsTypeOK, desk, history, tokens

----------------------------------------------------------------------------
(* The invariant of the queue.                                              *)

LEMMA InitInvariant == SmsInit => SmsIInv
<1> SUFFICES ASSUME SmsInit PROVE SmsIInv
  OBVIOUS
<1>1. SmsTypeOK
  BY SmsAssumption, IdleType, RestingType
     DEF SmsInit, SmsTypeOK, CampaignStatuses, TextRow, TextStatuses
<1>2. \A p \in Phones : /\ ~Listed(p)
                        /\ text[p].status = "NONE" /\ posts[p] = 0 /\ hits[p] = 0
  BY DEF SmsInit, Listed
<1>3. ASSUME NEW p \in Phones PROVE PostsCovered(p) /\ InOrder(p)
  <2>1. text[p].status \notin GoneOut /\ text[p].status # "SENDING" /\ polled = {}
    BY <1>2 DEF GoneOut, SmsInit
  <2>2. InOrder(p)
    BY <2>1 DEF InOrder
  <2>3. PostsCovered(p)
    BY <1>2 DEF PostsCovered
  <2> QED
    BY <2>2, <2>3
<1> QED
  BY <1>1, <1>2, <1>3, IdleType, RestingType DEF SmsInit, SmsIInv, JobHasText, InsertHasPhone

(* Requests insert only texts of recipients.                                 *)
LEMMA InsertsKeepPhones ==
  ASSUME SmsIInv, NEW r \in Requests, RequestStep(r) \/ RequestFails(r)
  PROVE  InsertHasPhone'
<1> USE IdleType DEF SmsIInv, SmsTypeOK, InsertHasPhone
<1>1. ASSUME NEW fields, fields.at = "insert" => fields.phone \in Phones, Step(r, fields)
      PROVE  InsertHasPhone'
  BY <1>1 DEF Step
<1>2. ASSUME NEW place, place # "insert", At(r, place) PROVE InsertHasPhone'
  BY <1>2 DEF At, Request
<1>3. Done(r) => InsertHasPhone'
  BY DEF Done, Step
<1>4. ASSUME NEW op, NEW token, ReadCampaign(r, op, token) PROVE InsertHasPhone'
  BY <1>4 DEF ReadCampaign, Step, Idle
<1>5. CountAudience(r) => InsertHasPhone'
  BY <1>3 DEF CountAudience, Step, Idle
<1>6. ASSUME NEW p \in Phones, FindText(r, p) PROVE InsertHasPhone'
  <2>1. CASE text[p].status = "NONE"
    BY <1>6, <2>1 DEF FindText, Step, Request
  <2>2. CASE text[p].status # "NONE"
    BY <1>6, <2>2 DEF FindText, Step, Request
  <2> QED
    BY <2>1, <2>2
<1>7. ASSUME NEW audience, FillRecipients(r, audience) PROVE InsertHasPhone'
  BY <1>2, <1>3, <1>7 DEF FillRecipients
<1>8. ClearRecipients(r) \/ IssueToken(r) \/ SaveCampaign(r) \/ MoveTexts(r) => InsertHasPhone'
  BY <1>2, <1>3 DEF ClearRecipients, IssueToken, SaveCampaign, MoveTexts
<1>9. ReadRecipients(r) => InsertHasPhone'
  <2>1. [request[r] EXCEPT !.at = "find", !.todo = recipients].at = "find"
    BY DEF Request
  <2> QED
    BY <1>1, <1>3, <2>1 DEF ReadRecipients
<1>10. InsertText(r) => InsertHasPhone'
  <2>1. [request[r] EXCEPT !.at = "find", !.phone = None].at = "find"
    BY DEF Request
  <2> QED
    BY <1>1, <1>3, <2>1 DEF InsertText
<1>11. FinishEnqueue(r) \/ RequestFails(r) => InsertHasPhone'
  BY <1>3 DEF FinishEnqueue, RequestFails
<1> QED
  BY <1>4, <1>5, <1>6, <1>7, <1>8, <1>9, <1>10, <1>11 DEF RequestStep

(* The part of the invariant about the list, the job and the texts.           *)
QueueOK ==
  /\ JobHasText
  /\ \A x, y \in list : x.id = y.id => x = y
  /\ \A p \in Phones : Listed(p) => ~Working(p)
  /\ \A p \in Phones : PostsCovered(p)
  /\ \A p \in Phones : hits[p] = 0 => InOrder(p)

LEMMA Parts == SmsIInv <=> SmsTypeOK /\ InsertHasPhone /\ QueueOK
BY DEF SmsIInv, QueueOK

LEMMA PartsNext == SmsTypeOK' /\ InsertHasPhone' /\ QueueOK' => SmsIInv'
BY DEF SmsIInv, QueueOK

(* A text stays paid for while what it rests on stays.                        *)
LEMMA StaysCovered ==
  ASSUME SmsTypeOK, NEW p \in Phones, PostsCovered(p),
         posts'[p] = posts[p], hits'[p] = hits[p],
         AtRest(p) \/ Sent(p) => AtRest(p)' \/ Sent(p)'
  PROVE  PostsCovered(p)'
<1>1. posts[p] \in Nat /\ hits[p] \in Nat
  BY DEF SmsTypeOK
<1>2. CASE AtRest(p) \/ Sent(p)
  BY <1>1, <1>2 DEF PostsCovered
<1>3. CASE ~(AtRest(p) \/ Sent(p))
  <2>1. posts[p] <= hits[p]
    BY <1>1, <1>3 DEF PostsCovered
  <2> QED
    BY <1>1, <2>1 DEF PostsCovered
<1> QED
  BY <1>2, <1>3

(* A step that changes only the rows of texts, and takes none of them out of *)
(* the statuses the queue relies on, keeps its invariant.                     *)
LEMMA RowsOnly ==
  ASSUME SmsIInv, UNCHANGED <<job, list, posts, hits>>, polled' \subseteq polled,
         \A p \in Phones : /\ text[p].status \in GoneOut => text'[p].status \in GoneOut
                           /\ text'[p].status \in GoneOut /\ hits[p] = 0 => text[p].status \in GoneOut
                           /\ text'[p].status = "SENDING" => text[p].status = "SENDING"
  PROVE  QueueOK'
<1>1. JobHasText' /\ \A x, y \in list' : x.id = y.id => x = y
  BY DEF SmsIInv, JobHasText
<1>2. \A p \in Phones : /\ Listed(p)' <=> Listed(p)
                        /\ Working(p)' <=> Working(p)
                        /\ Sent(p)' <=> Sent(p)
                        /\ AtRest(p) => AtRest(p)'
  BY DEF Listed, Working, Sent, WentOut, AtRest
<1>3. Held' = Held
  BY DEF Held
<1>4. ASSUME NEW p \in Phones PROVE PostsCovered(p)'
  BY <1>2, StaysCovered DEF SmsIInv
<1>5. ASSUME NEW p \in Phones, hits'[p] = 0 PROVE InOrder(p)'
  <2>1. InOrder(p) /\ hits[p] = 0
    BY <1>5 DEF SmsIInv
  <2> QED
    BY <1>2, <1>3, <2>1 DEF InOrder
<1> QED
  BY <1>1, <1>2, <1>4, <1>5 DEF SmsIInv, QueueOK

LEMMA RequestInvariant ==
  ASSUME SmsIInv, NEW r \in Requests, RequestStep(r) \/ RequestFails(r)
  PROVE  SmsIInv'
<1>1. SmsTypeOK' /\ InsertHasPhone'
  BY RequestTypes, InsertsKeepPhones DEF SmsIInv
<1>2. UNCHANGED <<job, list, polled, posts, hits>>
  BY DEF RequestStep, RequestFails, ReadCampaign, CountAudience, ClearRecipients, FillRecipients,
         IssueToken, SaveCampaign, MoveTexts, ReadRecipients, FindText, InsertText, FinishEnqueue,
         queue, history
<1>3. \A p \in Phones : /\ text'[p].status \in GoneOut <=> text[p].status \in GoneOut
                        /\ text'[p].status = "SENDING" => text[p].status = "SENDING"
  <2>1. CASE MoveTexts(r)
    <3>1. \A p \in Phones : text[p] \in TextRow
      BY DEF SmsIInv, SmsTypeOK
    <3> QED
      BY <2>1, <3>1 DEF MoveTexts, PauseRow, ResumeRow, CancelRow, Waiting, GoneOut, TextRow
  <2>2. CASE InsertText(r)
    BY <2>2 DEF InsertText, SmsIInv, SmsTypeOK, TextRow, GoneOut
  <2>3. CASE ~MoveTexts(r) /\ ~InsertText(r)
    <3>1. UNCHANGED text
      BY <2>3 DEF RequestStep, RequestFails, ReadCampaign, CountAudience, ClearRecipients,
         FillRecipients, IssueToken, SaveCampaign, ReadRecipients, FindText, FinishEnqueue, queue
    <3> QED
      BY <3>1
  <2> QED
    BY <2>1, <2>2, <2>3
<1> QED
  BY <1>1, <1>2, <1>3, RowsOnly, PartsNext

(* The job reads a list, takes a row, puts it off or ends its round.          *)
LEMMA ListInvariant ==
  ASSUME SmsIInv, ListStep
  PROVE  SmsIInv'
<1>1. SmsTypeOK' /\ InsertHasPhone'
  <2>1. UNCHANGED request
    BY DEF ListStep, ReadQueue, TakeRow, PutOff, EndRound, desk
  <2> QED
    BY <2>1, JobTypes DEF SmsIInv, JobHasText, InsertHasPhone
<1>2. SmsTypeOK /\ QueueOK
  BY Parts
<1>3. UNCHANGED <<polled, posts, hits>>
  BY DEF ListStep, ReadQueue, TakeRow, PutOff, EndRound, history
<1>4. job.at \in {"idle", "loop"} /\ job'.at \in {"idle", "loop", "take"}
  BY <1>2, RestingType DEF ListStep, ReadQueue, TakeRow, PutOff, EndRound, Go, SmsTypeOK, JobState
<1>5. Held = {} /\ Held' = {} /\ \A p \in Phones : ~Sent(p) /\ ~Working(p)
  BY <1>4 DEF Held, Sent, Working
\* It is enough that texts at rest stay so, and new ones in the list do not go out.
<1>6. ASSUME JobHasText', \A x, y \in list' : x.id = y.id => x = y,
             \A p \in Phones : /\ Listed(p)' => ~Working(p)'
                               /\ AtRest(p) => AtRest(p)'
                               /\ text'[p].status \in GoneOut <=> text[p].status \in GoneOut
                               /\ text'[p].status = "SENDING" => text[p].status = "SENDING"
      PROVE  SmsIInv'
  <2>1. ASSUME NEW p \in Phones PROVE PostsCovered(p)'
    BY <1>2, <1>3, <1>5, <1>6, StaysCovered DEF QueueOK
  <2>2. ASSUME NEW p \in Phones, hits'[p] = 0 PROVE InOrder(p)'
    <3>1. InOrder(p)
      BY <1>2, <1>3, <2>2 DEF QueueOK
    <3> QED
      BY <1>3, <1>5, <1>6, <3>1 DEF InOrder
  <2> QED
    BY <1>1, <1>6, <2>1, <2>2, PartsNext DEF QueueOK
<1>7. ASSUME NEW due \in SUBSET Phones, ReadQueue(due) PROVE SmsIInv'
  <2>1. /\ job'.at = "loop"
        /\ list' = {[id |-> t, attempts |-> text[t].attempts] : t \in due}
        /\ UNCHANGED text
    BY <1>2, <1>7 DEF ReadQueue, Go, SmsTypeOK, JobState
  <2>2. \A p \in Phones : Listed(p)' => text[p].status = "QUEUED"
    BY <1>7, <2>1 DEF ReadQueue, Listed
  <2>3. \A p \in Phones : ~Working(p)' /\ (AtRest(p) => AtRest(p)')
    BY <2>1, <2>2 DEF Working, AtRest, GoneOut
  <2> QED
    BY <1>6, <2>1, <2>3 DEF JobHasText
<1>8. ASSUME NEW row \in list, TakeRow(row) PROVE SmsIInv'
  <2>1. /\ job'.at = "take" /\ job'.id = row.id /\ row.id \in Phones
        /\ list' = list \ {row}
        /\ UNCHANGED text
    BY <1>2, <1>8 DEF TakeRow, SmsTypeOK, JobState, Resting
  <2>2. \A p \in Phones : Listed(p)' => Listed(p) /\ p # row.id
    BY <1>2, <2>1 DEF QueueOK, Listed
  <2>3. \A p \in Phones : Working(p)' => p = row.id
    BY <2>1 DEF Working
  <2>4. \A p \in Phones : AtRest(p) => AtRest(p)'
    <3>1. ~AtRest(row.id)
      BY DEF AtRest, Listed
    <3> QED
      BY <2>1, <2>2, <2>3, <3>1 DEF AtRest
  <2>5. JobHasText' /\ \A x, y \in list' : x.id = y.id => x = y
    BY <1>2, <2>1 DEF QueueOK, JobHasText
  <2> QED
    BY <1>6, <2>1, <2>2, <2>3, <2>4, <2>5
<1>9. ASSUME NEW row \in list, PutOff(row) PROVE SmsIInv'
  <2>1. /\ UNCHANGED job /\ list' = list \ {row} /\ row.id \in Phones
        /\ \A p \in Phones : text'[p] = IF p = row.id THEN [status |-> "QUEUED", attempts |-> row.attempts]
                                        ELSE text[p]
    BY <1>2, <1>9 DEF PutOff, SmsTypeOK
  <2>2. \A p \in Phones : (Listed(p)' => Listed(p)) /\ ~Working(p)'
    BY <1>5, <2>1 DEF Listed, Working
  <2>3. ASSUME NEW p \in Phones PROVE PostsCovered(p)' /\ (hits'[p] = 0 => InOrder(p)')
    <3>1. ~AtRest(row.id)
      BY DEF AtRest, Listed
    <3>2. AtRest(p) => AtRest(p)'
      BY <2>1, <2>2, <3>1 DEF AtRest
    <3>3. PostsCovered(p)'
      BY <1>2, <1>3, <1>5, <3>2, StaysCovered DEF QueueOK
    <3>4. ASSUME hits'[p] = 0 PROVE InOrder(p)'
      <4>1. InOrder(p)
        BY <1>2, <1>3, <3>4 DEF QueueOK
      <4>2. text'[p].status \in GoneOut <=> text[p].status \in GoneOut
        BY <2>1, <3>1, <4>1 DEF InOrder, GoneOut
      <4>3. text'[p].status = "SENDING" => text[p].status = "SENDING"
        BY <2>1
      <4> QED
        BY <1>3, <1>5, <3>2, <4>1, <4>2, <4>3 DEF InOrder
    <3> QED
      BY <3>3, <3>4
  <2>4. JobHasText' /\ \A x, y \in list' : x.id = y.id => x = y
    BY <1>2, <2>1 DEF QueueOK, JobHasText
  <2> QED
    BY <1>1, <2>2, <2>3, <2>4, PartsNext DEF QueueOK
<1>10. CASE EndRound
  <2>1. job'.at = "idle" /\ UNCHANGED <<text, list>>
    BY <1>2, <1>10 DEF EndRound, Go, SmsTypeOK, JobState
  <2>2. \A p \in Phones : ~Working(p)' /\ (AtRest(p) => AtRest(p)')
    BY <2>1 DEF Working, AtRest, Listed
  <2>3. JobHasText' /\ \A x, y \in list' : x.id = y.id => x = y
    BY <1>2, <2>1 DEF QueueOK, JobHasText
  <2> QED
    BY <1>6, <2>1, <2>2, <2>3
<1> QED
  BY <1>7, <1>8, <1>9, <1>10 DEF ListStep

(* The job saves what became of the text in its hands: nothing is left of   *)
(* the claim, and a text the provider took has gone out.                     *)
LEMMA LetsGo ==
  ASSUME SmsIInv, job.at \in {"gates", "answered"},
         NEW status \in TextStatuses, Save(status), status # "SENDING",
         Sent(job.id) => status \in GoneOut,
         status \in GoneOut => job'.at = "tally" /\ job'.outcome \in {"accepted", "ambiguous"},
         job'.at \in {"loop", "tally", "short"}, job'.at = "loop" \/ job'.id = job.id,
         UNCHANGED <<list, polled, posts, hits>>
  PROVE  QueueOK'
<1>1. PICK t \in Phones : t = job.id
  BY DEF SmsIInv, JobHasText
<1>2. Working(t) /\ Held = {t} /\ Held' = {}
  BY <1>1 DEF Working, Held
<1>3. ~Listed(t) /\ (AtRest(t) => Sent(t))
  BY <1>2 DEF SmsIInv, AtRest
<1>4. \A p \in Phones : text'[p].status = IF p = t THEN status ELSE text[p].status
  BY <1>1 DEF Save, SmsIInv, SmsTypeOK
<1>5. JobHasText' /\ \A x, y \in list' : x.id = y.id => x = y
  BY <1>1 DEF SmsIInv, JobHasText
<1>6. \A p \in Phones : (Working(p)' => p = t) /\ (Listed(p)' <=> Listed(p))
  BY <1>1 DEF Working, Listed
<1>7. status \in GoneOut => AtRest(t)'
  BY <1>3, <1>4, <1>6 DEF AtRest, WentOut
<1>8. \A p \in Phones : p # t => (AtRest(p) => AtRest(p)') /\ ~Sent(p)
  BY <1>1, <1>4, <1>6 DEF AtRest, Sent
<1>9. ASSUME NEW p \in Phones PROVE PostsCovered(p)'
  <2>1. AtRest(p) \/ Sent(p) => AtRest(p)' \/ Sent(p)'
    BY <1>1, <1>3, <1>7, <1>8
  <2> QED
    BY <1>9, <2>1, StaysCovered DEF SmsIInv
<1>10. ASSUME NEW p \in Phones, hits'[p] = 0 PROVE InOrder(p)'
  <2>1. InOrder(p)
    BY <1>10 DEF SmsIInv
  <2>2. text'[p].status \in GoneOut => AtRest(p)'
    BY <1>4, <1>7, <1>8, <2>1 DEF InOrder
  <2>3. text'[p].status # "SENDING"
    BY <1>2, <1>4, <2>1 DEF InOrder
  <2>4. \A copy \in polled' : copy.id = p => text'[p].status \in GoneOut
    <3>1. CASE p = t
      <4>1. text[p].status \notin GoneOut
        BY <1>1, <1>2, <1>3, <2>1, <3>1 DEF InOrder, AtRest
      <4> QED
        BY <2>1, <4>1 DEF InOrder
    <3>2. CASE p # t
      BY <1>4, <2>1, <3>2 DEF InOrder
    <3> QED
      BY <3>1, <3>2
  <2> QED
    BY <2>2, <2>3, <2>4 DEF InOrder
<1> QED
  BY <1>3, <1>5, <1>6, <1>9, <1>10 DEF SmsIInv, QueueOK

(* With no claim in hand, the job moves on without taking one.               *)
LEMMA MovesOn ==
  ASSUME SmsIInv, job.at \in {"take", "short", "tally", "complete"},
         \/ job'.at = "loop"
         \/ job.at = "tally" /\ job'.at = "complete" /\ job'.id = job.id /\ job'.outcome = job.outcome,
         UNCHANGED <<text, list, polled, posts, hits>>
  PROVE  QueueOK'
<1>1. JobHasText' /\ \A x, y \in list' : x.id = y.id => x = y
  BY DEF SmsIInv, JobHasText
<1>2. Held = {} /\ Held' = {} /\ \A p \in Phones : ~Sent(p)
  BY DEF Held, Sent
<1>3. \A p \in Phones : /\ Working(p)' => Working(p)
                        /\ Listed(p)' <=> Listed(p)
                        /\ AtRest(p) => AtRest(p)'
  BY DEF Working, Listed, AtRest, WentOut
<1>4. ASSUME NEW p \in Phones PROVE PostsCovered(p)'
  BY <1>2, <1>3, StaysCovered DEF SmsIInv
<1>5. ASSUME NEW p \in Phones, hits'[p] = 0 PROVE InOrder(p)'
  <2>1. InOrder(p)
    BY <1>5 DEF SmsIInv
  <2> QED
    BY <1>2, <1>3, <2>1 DEF InOrder
<1> QED
  BY <1>1, <1>3, <1>4, <1>5 DEF SmsIInv, QueueOK

(* The claim.                                                                *)
LEMMA ClaimInvariant ==
  ASSUME SmsIInv, Claim
  PROVE  QueueOK'
<1>1. PICK t \in Phones : t = job.id
  BY DEF SmsIInv, JobHasText, Claim
<1>2. SmsTypeOK
  BY DEF SmsIInv
<1>3. CASE Claimable(text[t].status)
  <2>1. /\ job.at = "take" /\ job'.at = "gates" /\ job'.id = t
        /\ UNCHANGED <<list, polled, posts, hits>>
    BY <1>1, <1>2, <1>3 DEF Claim, SmsTypeOK, JobState, history
  <2>2. Working(t) /\ Held = {} /\ Held' = {t} /\ \A p \in Phones : ~Sent(p)
    BY <1>1, <2>1 DEF Working, Held, Sent
  <2>3. ~Listed(t) /\ ~AtRest(t)
    BY <2>1, <2>2 DEF SmsIInv, AtRest
  <2>4. \A p \in Phones : text'[p].status = IF p = t THEN "SENDING" ELSE text[p].status
    BY <1>1, <1>2, <1>3 DEF Claim, SmsTypeOK
  <2>5. \A p \in Phones : (Working(p)' <=> p = t) /\ (Listed(p)' <=> Listed(p))
    BY <2>1 DEF Working, Listed
  <2>6. \A p \in Phones : AtRest(p) => AtRest(p)'
    BY <2>3, <2>4, <2>5 DEF AtRest
  <2>7. ASSUME NEW p \in Phones PROVE PostsCovered(p)'
    BY <2>1, <2>2, <2>6, StaysCovered DEF SmsIInv
  <2>8. ASSUME NEW p \in Phones, hits'[p] = 0 PROVE InOrder(p)'
    <3>1. InOrder(p)
      BY <2>1, <2>8 DEF SmsIInv
    <3>2. CASE p = t
      <4>1. text[p].status \notin GoneOut
        BY <1>3, <3>2 DEF Claimable, GoneOut
      <4> QED
        BY <2>1, <2>2, <2>4, <3>1, <3>2, <4>1 DEF InOrder, GoneOut
    <3>3. CASE p # t
      BY <2>1, <2>2, <2>4, <2>6, <3>1, <3>3 DEF InOrder
    <3> QED
      BY <3>2, <3>3
  <2>9. JobHasText' /\ \A x, y \in list' : x.id = y.id => x = y
    BY <2>1 DEF SmsIInv, JobHasText
  <2> QED
    BY <2>3, <2>5, <2>7, <2>8, <2>9 DEF SmsIInv, QueueOK
<1>4. CASE ~Claimable(text[t].status)
  <2>1. /\ job.at = "take" /\ job'.at = "loop"
        /\ UNCHANGED <<text, list, polled, posts, hits>>
    BY <1>1, <1>4 DEF Claim, NextRow, Resting, history
  <2> QED
    BY <2>1, MovesOn
<1> QED
  BY <1>3, <1>4

(* The post: the one step that raises posts, and no text is posted that        *)
(* already rests.                                                              *)
LEMMA PostInvariant ==
  ASSUME SmsIInv, NEW outcome \in Outcomes \ {"none"}, Post(outcome)
  PROVE  QueueOK'
<1>1. PICK t \in Phones : t = job.id
  BY DEF SmsIInv, JobHasText, Post
<1>2. SmsTypeOK
  BY DEF SmsIInv
<1>3. /\ job.at = "gates" /\ job'.at = "answered" /\ job'.id = t /\ job'.outcome = outcome
      /\ UNCHANGED <<text, list, polled, hits>>
  BY <1>1, <1>2 DEF Post, SmsTypeOK, JobState
<1>4. \A p \in Phones : /\ Working(p) <=> p = t
                        /\ Working(p)' <=> p = t
                        /\ Listed(p)' <=> Listed(p)
                        /\ ~Sent(p)
  BY <1>1, <1>3 DEF Working, Listed, Sent
<1>5. Held = {t} /\ Held' = {t}
  BY <1>1, <1>3 DEF Held
<1>6. \A p \in Phones : AtRest(p) => AtRest(p)'
  BY <1>3, <1>4 DEF AtRest
<1>7. ASSUME NEW p \in Phones PROVE PostsCovered(p)'
  <2>1. CASE p = t
    <3>1. posts[p] <= hits[p] /\ posts[p] \in Nat /\ hits[p] \in Nat
      <4>1. ~AtRest(p) /\ ~Sent(p)
        BY <1>3, <1>4, <2>1 DEF AtRest
      <4> QED
        BY <1>2, <4>1 DEF SmsIInv, SmsTypeOK, PostsCovered
    <3>2. CASE posts' = posts
      BY <1>3, <3>1, <3>2 DEF PostsCovered
    <3>3. CASE outcome \in {"accepted", "ambiguous"} /\ posts' = [posts EXCEPT ![job.id] = @ + 1]
      <4>1. Sent(p)' /\ posts'[p] = posts[p] + 1 /\ hits'[p] = hits[p]
        BY <1>1, <1>2, <1>3, <2>1, <3>3 DEF Sent, WentOut, SmsTypeOK
      <4> QED
        BY <3>1, <4>1 DEF PostsCovered
    <3> QED
      BY <3>2, <3>3 DEF Post
  <2>2. CASE p # t
    <3>1. posts'[p] = posts[p] /\ hits'[p] = hits[p]
      BY <1>1, <1>2, <1>3, <2>2 DEF Post, SmsTypeOK
    <3> QED
      BY <1>2, <1>4, <1>6, <3>1, StaysCovered DEF SmsIInv
  <2> QED
    BY <2>1, <2>2
<1>8. ASSUME NEW p \in Phones, hits'[p] = 0 PROVE InOrder(p)'
  <2>1. InOrder(p)
    BY <1>3, <1>8 DEF SmsIInv
  <2> QED
    BY <1>3, <1>5, <1>6, <2>1 DEF InOrder
<1>9. JobHasText' /\ \A x, y \in list' : x.id = y.id => x = y
  BY <1>3 DEF SmsIInv, JobHasText
<1> QED
  BY <1>4, <1>7, <1>8, <1>9 DEF SmsIInv, QueueOK

(* dispatchMessage: the claim, the gates, the answer, the campaign's end.     *)
LEMMA DispatchInvariant ==
  ASSUME SmsIInv, Dispatch
  PROVE  SmsIInv'
<1>1. SmsTypeOK' /\ InsertHasPhone'
  <2>1. UNCHANGED request
    BY DEF Dispatch, Claim, Refuse, Defer, RunShort, PauseForCredit, Post, Record, CountWaiting,
           Complete, desk
  <2> QED
    BY <2>1, JobTypes DEF SmsIInv, JobHasText, InsertHasPhone
<1>2. SmsTypeOK
  BY DEF SmsIInv
<1>3. NextRow => job'.at = "loop"
  BY DEF NextRow, Resting
<1>4. \A place : Go(place) => job'.at = place /\ job'.id = job.id /\ job'.outcome = job.outcome
  BY <1>2 DEF Go, SmsTypeOK, JobState
<1>5. CASE Claim
  BY <1>1, <1>5, ClaimInvariant, PartsNext
<1>6. CASE Defer \/ RunShort \/ \E status \in {"SKIPPED", "FAILED"} : Refuse(status)
  <2>1. PICK status \in {"QUEUED", "SKIPPED", "FAILED"} :
          /\ Save(status)
          /\ job.at = "gates" /\ job'.at \in {"loop", "tally", "short"}
          /\ job'.at = "loop" \/ job'.id = job.id
          /\ UNCHANGED <<list, polled, posts, hits>>
    BY <1>3, <1>4, <1>6 DEF Defer, RunShort, Refuse, history
  <2>2. status \in TextStatuses \ GoneOut /\ status # "SENDING" /\ ~Sent(job.id)
    BY <2>1 DEF TextStatuses, Sent, GoneOut
  <2> QED
    BY <1>1, <2>1, <2>2, LetsGo, PartsNext
<1>7. CASE PauseForCredit \/ CountWaiting \/ Complete
  <2>1. /\ job.at \in {"short", "tally", "complete"}
        /\ \/ job'.at = "loop"
           \/ job.at = "tally" /\ job'.at = "complete" /\ job'.id = job.id /\ job'.outcome = job.outcome
        /\ UNCHANGED <<text, list, polled, posts, hits>>
    BY <1>3, <1>4, <1>7 DEF PauseForCredit, CountWaiting, Complete, history
  <2> QED
    BY <1>1, <2>1, MovesOn, PartsNext
<1>8. ASSUME NEW outcome \in Outcomes \ {"none"}, Post(outcome) PROVE SmsIInv'
  BY <1>1, <1>8, PostInvariant, PartsNext
<1>9. CASE Record
  <2> DEFINE status == StatusFor(job.outcome, job.attempts)
  <2>1. /\ status \in TextStatuses /\ status # "SENDING"
        /\ status \in GoneOut <=> job.outcome \in {"accepted", "ambiguous"}
    BY DEF StatusFor, TextStatuses, GoneOut
  <2>2. /\ Save(status) /\ job.at = "answered" /\ job'.at \in {"loop", "tally"}
        /\ job'.at = "loop" => job.outcome = "retryable"
        /\ job'.at = "loop" \/ (job'.id = job.id /\ job'.outcome = job.outcome)
        /\ UNCHANGED <<list, polled, posts, hits>>
    BY <1>3, <1>4, <1>9 DEF Record, PutsBack, history
  <2>3. Sent(job.id) => status \in GoneOut
    BY <2>1 DEF Sent, WentOut
  <2> HIDE DEF status
  <2> QED
    BY <1>1, <2>1, <2>2, <2>3, LetsGo, PartsNext
<1> QED
  BY <1>5, <1>6, <1>7, <1>8, <1>9 DEF Dispatch

(* A mishap of the job pays for what it loses: the text claimed or just sent, *)
(* or the one whose outcome the catch is about to take back.                   *)
LEMMA CaughtInvariant ==
  ASSUME SmsIInv, Caught
  PROVE  QueueOK'
<1>1. PICK t \in Phones : t = job.id
  BY DEF SmsIInv, JobHasText, Caught, InTry
<1>2. SmsTypeOK
  BY DEF SmsIInv
<1>3. /\ job.at \in {"answered", "tally", "complete"}
      /\ job'.at = "answered" /\ job'.id = t /\ job'.outcome = "thrown"
      /\ UNCHANGED <<text, list, polled, posts>>
  BY <1>1, <1>2 DEF Caught, InTry, SmsTypeOK, JobState
<1>4. \A p \in Phones : hits'[p] = IF p = t /\ (WentOut \/ job.at = "answered")
                                   THEN hits[p] + 1 ELSE hits[p]
  BY <1>1, <1>3 DEF Caught, Hit, Held
<1>5. \A p \in Phones : /\ Working(p) <=> p = t
                        /\ Working(p)' <=> p = t
                        /\ Listed(p)' <=> Listed(p)
  BY <1>1, <1>3 DEF Working, Listed
<1>6. Held' = {t} /\ Held \subseteq {t}
  BY <1>1, <1>3 DEF Held
<1>7. \A p \in Phones : p # t => (AtRest(p) => AtRest(p)') /\ ~Sent(p)
  BY <1>1, <1>3, <1>5 DEF AtRest, Sent
<1>8. ~WentOut => ~AtRest(t) /\ ~Sent(t)
  BY <1>5 DEF AtRest, Sent
<1>9. ASSUME NEW p \in Phones PROVE PostsCovered(p)'
  <2>1. posts[p] \in Nat /\ hits[p] \in Nat /\ PostsCovered(p)
    BY <1>2 DEF SmsIInv, SmsTypeOK
  <2>2. CASE p = t
    <3>1. posts[p] <= hits'[p]
      BY <1>4, <1>8, <2>1, <2>2 DEF PostsCovered
    <3>2. hits'[p] \in Nat /\ posts'[p] = posts[p]
      BY <1>3, <1>4, <2>1
    <3> QED
      BY <2>1, <3>1, <3>2 DEF PostsCovered
  <2>3. CASE p # t
    BY <1>2, <1>3, <1>4, <1>7, <2>1, <2>3, StaysCovered
  <2> QED
    BY <2>2, <2>3
<1>10. ASSUME NEW p \in Phones, hits'[p] = 0 PROVE InOrder(p)'
  <2>1. hits[p] = 0 /\ InOrder(p) /\ (p = t => ~WentOut)
    BY <1>2, <1>4, <1>10 DEF SmsIInv, SmsTypeOK
  <2>2. text[p].status \in GoneOut => AtRest(p)'
    BY <1>7, <1>8, <2>1 DEF InOrder
  <2>3. text[p].status = "SENDING" => Held' = {p}
    BY <1>6, <2>1 DEF InOrder
  <2> QED
    BY <1>3, <2>1, <2>2, <2>3 DEF InOrder
<1>11. JobHasText' /\ \A x, y \in list' : x.id = y.id => x = y
  BY <1>3 DEF SmsIInv, JobHasText
<1> QED
  BY <1>5, <1>9, <1>10, <1>11 DEF SmsIInv, QueueOK

LEMMA StopsInvariant ==
  ASSUME SmsIInv, Breaks \/ Restart
  PROVE  QueueOK'
<1>1. SmsTypeOK
  BY DEF SmsIInv
<1>2. /\ job'.at = "idle" /\ list' = {} /\ polled' \subseteq polled
      /\ UNCHANGED <<text, posts>>
  BY RestingType DEF Breaks, Restart
<1>3. \A p \in Phones : hits'[p] = IF p \in Held THEN hits[p] + 1 ELSE hits[p]
  BY DEF Breaks, Restart, Hit
<1>4. \A p \in Phones : ~Listed(p)' /\ ~Working(p)' /\ (AtRest(p) => AtRest(p)')
  BY <1>2 DEF Listed, Working, AtRest
<1>5. \A p \in Phones : Sent(p) => p \in Held
  BY DEF Sent, Held
<1>6. ASSUME NEW p \in Phones PROVE PostsCovered(p)'
  <2>1. posts[p] \in Nat /\ hits[p] \in Nat /\ PostsCovered(p) /\ posts'[p] = posts[p]
    BY <1>1, <1>2 DEF SmsIInv, SmsTypeOK
  <2>2. CASE p \in Held
    <3>1. posts[p] <= hits'[p] /\ hits'[p] \in Nat
      BY <1>3, <2>1, <2>2 DEF PostsCovered
    <3> QED
      BY <2>1, <3>1 DEF PostsCovered
  <2>3. CASE p \notin Held
    BY <1>1, <1>3, <1>4, <1>5, <2>1, <2>3, StaysCovered
  <2> QED
    BY <2>2, <2>3
<1>7. ASSUME NEW p \in Phones, hits'[p] = 0 PROVE InOrder(p)'
  <2>1. p \notin Held /\ InOrder(p)
    BY <1>1, <1>3, <1>7 DEF SmsIInv, SmsTypeOK
  <2>2. text'[p].status # "SENDING"
    BY <1>2, <2>1 DEF InOrder
  <2> QED
    BY <1>2, <1>4, <2>1, <2>2 DEF InOrder
<1> QED
  BY <1>2, <1>4, <1>6, <1>7 DEF QueueOK, JobHasText

LEMMA MishapInvariant ==
  ASSUME SmsIInv, Caught \/ Breaks \/ Restart
  PROVE  SmsIInv'
<1>1. SmsTypeOK'
  BY JobTypes DEF SmsIInv, JobHasText
<1>2. InsertHasPhone'
  BY IdleType DEF Caught, Breaks, Restart, desk, SmsIInv, InsertHasPhone
<1> QED
  BY <1>1, <1>2, CaughtInvariant, StopsInvariant, PartsNext

(* A delivery report is fetched for a text that went out, and says how.       *)
LEMMA ReadInvariant ==
  ASSUME SmsIInv, NEW p \in Phones, ReadReport(p)
  PROVE  SmsIInv'
<1>1. SmsTypeOK' /\ InsertHasPhone'
  BY ReadReportTypes DEF SmsIInv, InsertHasPhone, ReadReport, desk
<1>2. UNCHANGED <<text, job, list, posts, hits>>
  BY DEF ReadReport, history
<1>3. \A copy \in polled' : copy \in polled \/ (copy.id = p /\ text[p].status \in GoneOut)
  BY DEF ReadReport, GoneOut
<1>4. \A q \in Phones : /\ Listed(q)' <=> Listed(q)
                        /\ Working(q)' <=> Working(q)
                        /\ PostsCovered(q)' <=> PostsCovered(q)
                        /\ AtRest(q)' <=> AtRest(q)
  BY <1>2 DEF Listed, Working, PostsCovered, AtRest, Sent, WentOut
<1>5. Held' = Held
  BY <1>2 DEF Held
<1>6. ASSUME NEW q \in Phones, hits'[q] = 0 PROVE InOrder(q)'
  <2>1. InOrder(q)
    BY <1>2, <1>6 DEF SmsIInv
  <2> QED
    BY <1>2, <1>3, <1>4, <1>5, <2>1 DEF InOrder
<1> QED
  BY <1>1, <1>2, <1>4, <1>6 DEF SmsIInv, JobHasText

LEMMA SaveInvariant ==
  ASSUME SmsIInv, NEW copy \in polled, NEW status \in {copy.status, "DELIVERED", "UNDELIVERED"},
         SaveReport(copy, status)
  PROVE  SmsIInv'
<1>1. SmsTypeOK' /\ InsertHasPhone'
  BY SaveReportTypes DEF SmsIInv, InsertHasPhone, SaveReport, desk
<1>2. UNCHANGED <<job, list, posts, hits>> /\ polled' \subseteq polled
  BY DEF SaveReport, history
<1>3. copy.id \in Phones /\ status \in GoneOut /\ status # "SENDING"
  BY DEF SmsIInv, SmsTypeOK, GoneOut
<1>4. hits[copy.id] = 0 => text[copy.id].status \in GoneOut
  BY <1>3 DEF SmsIInv, InOrder
<1>5. \A p \in Phones : text'[p].status = IF p = copy.id THEN status ELSE text[p].status
  BY DEF SaveReport, SmsIInv, SmsTypeOK
<1> QED
  BY <1>1, <1>2, <1>3, <1>4, <1>5, RowsOnly, PartsNext

LEMMA StepInvariant == SmsIInv /\ [SmsNext]_vars => SmsIInv'
<1> SUFFICES ASSUME SmsIInv, [SmsNext]_vars PROVE SmsIInv'
  OBVIOUS
<1>1. CASE UNCHANGED vars
  BY <1>1 DEF vars, queue, tokens, desk, history, SmsIInv, SmsTypeOK, JobHasText, InsertHasPhone,
              PostsCovered, InOrder, AtRest, WentOut, Listed, Working, Sent, Held
<1>2. CASE SmsNext
  BY <1>2, RequestInvariant, ListInvariant, DispatchInvariant, MishapInvariant, ReadInvariant,
     SaveInvariant DEF SmsNext
<1> QED
  BY <1>1, <1>2

(* What holds the queue together in every run of the system: a text is in    *)
(* the list of the job, in its hands or in neither; a text no mishap hit is   *)
(* nowhere in there once it went out; and each mishap pays for at most one    *)
(* more post of the text it hit.                                              *)
THEOREM SmsInvariant == SmsSpec => []SmsIInv
<1> QED
  BY InitInvariant, StepInvariant, PTL DEF SmsSpec

(* The provider takes the text to a recipient once, whatever administrators, *)
(* the job and the delivery reports do meanwhile, and at most once more for   *)
(* each restart or failing statement that lost its claim or outcome.          *)
THEOREM NoDoubleTextHolds == SmsSpec => []NoDoubleText
<1>1. ASSUME SmsIInv, NEW p \in Phones PROVE posts[p] <= 1 + hits[p]
  <2>1. posts[p] \in Nat /\ hits[p] \in Nat /\ PostsCovered(p)
    BY <1>1 DEF SmsIInv, SmsTypeOK
  <2> QED
    BY <2>1 DEF PostsCovered
<1>2. SmsIInv => NoDoubleText
  BY <1>1 DEF NoDoubleText
<1> QED
  BY <1>2, SmsInvariant, PTL

(* No pause, cancellation, late save of the job or report takes back what    *)
(* went out, unless a mishap hit the text before: then the catch may.        *)
THEOREM OutcomeStaysHolds == SmsSpec => OutcomeStays
<1> DEFINE Stays == \A p \in Phones :
                      hits[p] = 0 /\ text[p].status \in GoneOut => text'[p].status \in GoneOut
<1>1. ASSUME SmsIInv, SmsNext, NEW p \in Phones, hits[p] = 0, text[p].status \in GoneOut
      PROVE  text'[p].status \in GoneOut
  <2>1. /\ text[p] \in TextRow /\ text \in [Phones -> TextRow]
        /\ ~Listed(p) /\ (Working(p) => job.at \in {"tally", "complete"})
    BY <1>1 DEF SmsIInv, SmsTypeOK, InOrder, AtRest
  <2>2. CASE \E r \in Requests : RequestStep(r) \/ RequestFails(r)
    <3>1. PICK r \in Requests : RequestStep(r) \/ RequestFails(r)
      BY <2>2
    <3>2. CASE MoveTexts(r)
      BY <1>1, <2>1, <3>2 DEF MoveTexts, PauseRow, ResumeRow, CancelRow, Waiting, GoneOut
    <3>3. CASE InsertText(r)
      BY <1>1, <2>1, <3>3 DEF InsertText, GoneOut
    <3>4. CASE ~MoveTexts(r) /\ ~InsertText(r)
      <4>1. UNCHANGED text
        BY <3>1, <3>4 DEF RequestStep, RequestFails, ReadCampaign, CountAudience, ClearRecipients,
           FillRecipients, IssueToken, SaveCampaign, ReadRecipients, FindText, FinishEnqueue, queue
      <4> QED
        BY <1>1, <4>1
    <3> QED
      BY <3>2, <3>3, <3>4
  <2>3. CASE ListStep
    <3>1. ASSUME NEW row \in list, PutOff(row) PROVE text'[p].status \in GoneOut
      BY <1>1, <2>1, <3>1 DEF PutOff, Listed
    <3> QED
      BY <1>1, <2>3, <3>1 DEF ListStep, ReadQueue, TakeRow, EndRound
  <2>4. CASE Dispatch
    <3>1. CASE job.at \in {"take", "gates", "answered"}
      <4>1. job.id # p
        BY <2>1, <3>1 DEF Working
      <4> QED
        BY <1>1, <2>1, <2>4, <3>1, <4>1
           DEF Dispatch, Claim, Refuse, Defer, RunShort, PauseForCredit, Post, Record,
               CountWaiting, Complete, Save
    <3>2. CASE job.at \notin {"take", "gates", "answered"}
      BY <1>1, <2>4, <3>2 DEF Dispatch, Claim, Refuse, Defer, RunShort, PauseForCredit, Post,
                              Record, CountWaiting, Complete
    <3> QED
      BY <3>1, <3>2
  <2>5. CASE Caught \/ Breaks \/ Restart
    BY <1>1, <2>5 DEF Caught, Breaks, Restart
  <2>6. ASSUME NEW q \in Phones, ReadReport(q) PROVE text'[p].status \in GoneOut
    BY <1>1, <2>6 DEF ReadReport
  <2>7. ASSUME NEW copy \in polled, NEW status \in {copy.status, "DELIVERED", "UNDELIVERED"},
               SaveReport(copy, status)
        PROVE  text'[p].status \in GoneOut
    <3>1. status \in GoneOut
      BY <1>1 DEF SmsIInv, SmsTypeOK, GoneOut
    <3>2. text'[p].status = IF p = copy.id THEN status ELSE text[p].status
      BY <2>1, <2>7 DEF SaveReport
    <3> QED
      BY <1>1, <3>1, <3>2
  <2> QED
    BY <1>1, <2>2, <2>3, <2>4, <2>5, <2>6, <2>7 DEF SmsNext
<1>2. SmsIInv /\ [SmsNext]_vars => [Stays]_vars
  BY <1>1
<1> QED
  BY <1>2, SmsInvariant, PTL DEF SmsSpec, OutcomeStays
=============================================================================
