---------------------------- MODULE SmsCampaigns ----------------------------
(***************************************************************************)
(* The SMS panel (modules/sms-panel): one campaign from its preparation to  *)
(* its last text, the queue of texts, the job that works through it (one    *)
(* process runs it, one round at a time) and the delivery reports.           *)
(*                                                                         *)
(* A text is named by its key, the campaign's for a phone number.  Payload   *)
(* hash, typed count, one-time code, credit of an approval and the four-    *)
(* eyes rule only refuse requests, and a refused request is one that was    *)
(* not made.  Every bulk campaign needs a second approval, so a confirmation *)
(* never enqueues by itself.  Times are abstracted: any queued text may be   *)
(* due.  Texts sent singly, outside any campaign, are left out.               *)
(***************************************************************************)
EXTENDS Naturals

CONSTANTS
  Phones,       \* phone numbers a campaign can reach
  Requests,     \* administrators' requests that may run at the same time
  None,         \* no phone number
  MaxAttempts,  \* SMS_RETRY_MAX_ATTEMPTS
  MaxPrepares,  \* how often the campaign is prepared
  MaxMishaps    \* restarts and failing statements

ASSUME SmsAssumption ==
  /\ MaxAttempts \in Nat /\ MaxPrepares \in Nat /\ MaxMishaps \in Nat
  /\ None \notin Phones

VARIABLES
  campaign,       \* its status
  recipients,     \* rows of sms_campaign_recipient
  prepares,       \* tokens created so far, numbered from 1
  unused,         \* those whose token was not used
  text,           \* row of the text of each phone number
  request,        \* program point and local values of each request
  job,            \* program point and local values of the minutely job
  list,           \* rows the job read and has not reached
  polled,         \* copies of the rows whose delivery reports are being fetched
  mishaps,        \* mishaps so far
  posts,          \* times the provider took the text of each number (history)
  hits            \* mishaps that lost the claim or the outcome of its text (history)

queue   == <<text, job, list, polled>>
tokens  == <<prepares, unused>>
desk    == <<campaign, recipients, tokens, request>>
history == <<posts, hits>>
vars    == <<queue, desk, mishaps, history>>

CampaignStatuses == {"DRAFT", "PREPARED", "AWAITING_APPROVAL", "SCHEDULED", "SENDING",
                     "PAUSED", "COMPLETED", "CANCELLED"}
TextStatuses     == {"NONE", "QUEUED", "SENDING", "PAUSED", "SENT", "PENDING_UNKNOWN",
                     "DELIVERED", "UNDELIVERED", "FAILED", "SKIPPED", "CANCELLED"}
Outcomes         == {"none", "accepted", "ambiguous", "blacklisted", "retryable", "refused", "thrown"}
Ops              == {"prepare", "confirm", "approve", "reject", "pause", "resume", "cancel"}

Waiting == {"QUEUED", "SENDING", "PAUSED"}
GoneOut == {"SENT", "PENDING_UNKNOWN", "DELIVERED", "UNDELIVERED"}

TextRow  == [status : TextStatuses, attempts : 0..MaxAttempts]
Request  == [at : {"idle", "count", "clear", "fill", "token", "write", "rows",
                   "enqueue", "find", "insert"},
             op : Ops, copy : CampaignStatuses, token : 0..MaxPrepares,
             todo : SUBSET Phones, phone : Phones \cup {None}]
JobState == [at : {"idle", "loop", "take", "gates", "short", "answered", "tally", "complete"},
             id : Phones \cup {None}, attempts : 0..MaxAttempts, outcome : Outcomes]

Idle    == [at |-> "idle", op |-> "prepare", copy |-> "DRAFT", token |-> 0,
            todo |-> {}, phone |-> None]
Resting == [at |-> "idle", id |-> None, attempts |-> 0, outcome |-> "none"]

SmsTypeOK ==
  /\ campaign \in CampaignStatuses
  /\ recipients \subseteq Phones
  /\ prepares \in 0..MaxPrepares
  /\ unused \subseteq 1..MaxPrepares
  /\ text \in [Phones -> TextRow]
  /\ request \in [Requests -> Request]
  /\ job \in JobState
  /\ list \subseteq [id : Phones, attempts : 0..MaxAttempts]
  /\ polled \subseteq [id : Phones, status : GoneOut, attempts : 0..MaxAttempts]
  /\ mishaps \in 0..MaxMishaps
  /\ posts \in [Phones -> Nat]
  /\ hits \in [Phones -> Nat]

SmsInit ==
  /\ campaign = "DRAFT"
  /\ recipients = {}
  /\ prepares = 0
  /\ unused = {}
  /\ text = [p \in Phones |-> [status |-> "NONE", attempts |-> 0]]
  /\ request = [r \in Requests |-> Idle]
  /\ job = Resting
  /\ list = {}
  /\ polled = {}
  /\ mishaps = 0
  /\ posts = [p \in Phones |-> 0]
  /\ hits = [p \in Phones |-> 0]

----------------------------------------------------------------------------
(* Administrators' requests.                                                *)

Step(r, fields) == request' = [request EXCEPT ![r] = fields]
At(r, place)    == request' = [request EXCEPT ![r].at = place]
Done(r)         == Step(r, Idle)

CanPause(status)  == status \in {"SENDING", "SCHEDULED"}
CanResume(status) == status = "PAUSED"
CanCancel(status) == status \notin {"COMPLETED", "CANCELLED"}

ReadCampaign(r, op, token) ==
  /\ request[r].at = "idle"
  /\ CASE op = "prepare" -> prepares < MaxPrepares
       [] op = "confirm" -> campaign = "PREPARED" /\ token \in unused
       [] op = "approve" -> campaign = "AWAITING_APPROVAL"
       [] op = "reject"  -> campaign = "AWAITING_APPROVAL"
       [] op = "pause"   -> CanPause(campaign)
       [] op = "resume"  -> CanResume(campaign)
       [] op = "cancel"  -> CanCancel(campaign)
  /\ Step(r, IF op = "prepare" THEN [Idle EXCEPT !.at = "count", !.copy = campaign]
             ELSE [Idle EXCEPT !.at = "write", !.op = op, !.token = token])
  /\ UNCHANGED <<campaign, recipients, tokens, queue, mishaps, history>>

\* previewCampaign saves the row it read, status included; then the credit is checked.
CountAudience(r) ==
  /\ request[r].at = "count"
  /\ campaign' = request[r].copy
  /\ Step(r, [Idle EXCEPT !.at = "clear"]) \/ Done(r)
  /\ UNCHANGED <<recipients, tokens, queue, mishaps, history>>

ClearRecipients(r) ==
  /\ request[r].at = "clear"
  /\ recipients' = {}
  /\ At(r, "fill")
  /\ UNCHANGED <<campaign, tokens, queue, mishaps, history>>

\* Later statements may refuse: no phone of the administrator, no template for the code.
FillRecipients(r, audience) ==
  /\ request[r].at = "fill"
  /\ recipients' = recipients \cup audience
  /\ At(r, "token") \/ Done(r)
  /\ UNCHANGED <<campaign, tokens, queue, mishaps, history>>

\* The confirmation is stored and the campaign saved as PREPARED, whatever it was.
IssueToken(r) ==
  /\ request[r].at = "token" /\ prepares < MaxPrepares
  /\ prepares' = prepares + 1
  /\ unused' = unused \cup {prepares'}
  /\ campaign' = "PREPARED"
  /\ Done(r)
  /\ UNCHANGED <<recipients, queue, mishaps, history>>

\* What each request makes of the status, and where it goes on.
StatusAfter(op) ==
  CASE op = "confirm" -> "AWAITING_APPROVAL"
    [] op = "approve" -> "SCHEDULED"
    [] op = "pause"   -> "PAUSED"
    [] op = "resume"  -> "SENDING"
    [] OTHER          -> "CANCELLED"

SaveCampaign(r) ==
  /\ request[r].at = "write"
  /\ campaign' = StatusAfter(request[r].op)
  /\ unused' = unused \ {request[r].token}
  /\ CASE request[r].op = "approve"             -> At(r, "enqueue")
       [] request[r].op \in {"confirm", "reject"} -> Done(r)
       [] OTHER                                  -> At(r, "rows")
  /\ UNCHANGED <<recipients, prepares, queue, mishaps, history>>

\* The update without its condition on the status.
PauseAny(row)  == IF row.status \notin {"NONE", "CANCELLED"} THEN [row EXCEPT !.status = "PAUSED"] ELSE row

PauseRow(row)  == IF row.status \in {"QUEUED", "SENDING"} THEN [row EXCEPT !.status = "PAUSED"] ELSE row
ResumeRow(row) == IF row.status = "PAUSED" THEN [row EXCEPT !.status = "QUEUED"] ELSE row
CancelRow(row) == IF row.status \in Waiting THEN [row EXCEPT !.status = "CANCELLED"] ELSE row

\* The texts of the campaign follow in one statement.
MoveTexts(r) ==
  /\ request[r].at = "rows"
  /\ text' = [p \in Phones |-> CASE request[r].op = "pause"  -> PauseRow(text[p])
                               [] request[r].op = "resume" -> ResumeRow(text[p])
                               [] OTHER                    -> CancelRow(text[p])]
  /\ Done(r)
  /\ UNCHANGED <<campaign, recipients, tokens, job, list, polled, mishaps, history>>

----------------------------------------------------------------------------
(* enqueueCampaign: one text per recipient, then the campaign is SENDING.   *)

ReadRecipients(r) ==
  /\ request[r].at = "enqueue"
  /\ IF recipients = {} THEN Done(r)
     ELSE Step(r, [request[r] EXCEPT !.at = "find", !.todo = recipients])
  /\ UNCHANGED <<campaign, recipients, tokens, queue, mishaps, history>>

FindText(r, p) ==
  /\ request[r].at = "find" /\ p \in request[r].todo
  /\ Step(r, IF text[p].status = "NONE"
             THEN [request[r] EXCEPT !.todo = @ \ {p}, !.at = "insert", !.phone = p]
             ELSE [request[r] EXCEPT !.todo = @ \ {p}])
  /\ UNCHANGED <<campaign, recipients, tokens, queue, mishaps, history>>

\* The key is unique: an insert that comes second fails and ends the request.
InsertText(r) ==
  LET p == request[r].phone
  IN  /\ request[r].at = "insert"
      /\ IF text[p].status = "NONE"
         THEN /\ text' = [text EXCEPT ![p].status = "QUEUED"]
              /\ Step(r, [request[r] EXCEPT !.at = "find", !.phone = None])
         ELSE Done(r) /\ UNCHANGED text
      /\ UNCHANGED <<campaign, recipients, tokens, job, list, polled, mishaps, history>>

FinishEnqueue(r) ==
  /\ request[r].at = "find" /\ request[r].todo = {}
  /\ campaign' = "SENDING"
  /\ Done(r)
  /\ UNCHANGED <<recipients, tokens, queue, mishaps, history>>

----------------------------------------------------------------------------
(* processQueue: the job reads a list and takes its rows one by one.        *)

Go(place) == job' = [job EXCEPT !.at = place]
NextRow   == job' = [Resting EXCEPT !.at = "loop"]

\* Only QUEUED rows are read; any set of them may be due.
ReadQueue(due) ==
  /\ job.at = "idle"
  /\ due # {} /\ \A t \in due : text[t].status = "QUEUED"
  /\ list' = {[id |-> t, attempts |-> text[t].attempts] : t \in due}
  /\ Go("loop")
  /\ UNCHANGED <<text, polled, desk, mishaps, history>>

TakeRow(row) ==
  /\ job.at = "loop" /\ row \in list
  /\ list' = list \ {row}
  /\ job' = [Resting EXCEPT !.at = "take", !.id = row.id]
  /\ UNCHANGED <<text, polled, desk, mishaps, history>>

\* Outside the hours of promotion the row is put off, by saving the copy in the list.
PutOff(row) ==
  /\ job.at = "loop" /\ row \in list
  /\ list' = list \ {row}
  /\ text' = [text EXCEPT ![row.id] = [status |-> "QUEUED", attempts |-> row.attempts]]
  /\ UNCHANGED <<job, polled, desk, mishaps, history>>

EndRound ==
  /\ job.at = "loop" /\ list = {}
  /\ Go("idle")
  /\ UNCHANGED <<text, list, polled, desk, mishaps, history>>

----------------------------------------------------------------------------
(* dispatchMessage.  The row is read again after the claim, and every save  *)
(* writes that copy back, whatever happened to the row meanwhile.           *)

Claimable(status) == status \in {"QUEUED", "SENDING"}

\* Attempts past the maximum all count the same.
Counted(attempts) == IF attempts < MaxAttempts THEN attempts + 1 ELSE attempts

Claim ==
  LET t == job.id
      n == Counted(text[t].attempts)
  IN  /\ job.at = "take"
      /\ IF Claimable(text[t].status)
         THEN /\ text' = [text EXCEPT ![t] = [status |-> "SENDING", attempts |-> n]]
              /\ job' = [job EXCEPT !.at = "gates", !.attempts = n]
         ELSE NextRow /\ UNCHANGED text
      /\ UNCHANGED <<list, polled, desk, mishaps, history>>

Save(status) ==
  text' = [text EXCEPT ![job.id] = [status |-> status, attempts |-> job.attempts]]

\* Blacklist, withdrawn consent, suppression or frequency cap; or no line to send from.
Refuse(status) ==
  /\ job.at = "gates"
  /\ Save(status)
  /\ Go("tally")
  /\ UNCHANGED <<list, polled, desk, mishaps, history>>

\* Outside the hours of promotion, or no token left for the provider.
Defer ==
  /\ job.at = "gates"
  /\ Save("QUEUED")
  /\ NextRow
  /\ UNCHANGED <<list, polled, desk, mishaps, history>>

\* The credit does not cover the text: the campaign is paused, its other texts are not.
RunShort ==
  /\ job.at = "gates"
  /\ Save("QUEUED")
  /\ Go("short")
  /\ UNCHANGED <<list, polled, desk, mishaps, history>>

PauseForCredit ==
  /\ job.at = "short"
  /\ campaign' = "PAUSED"
  /\ NextRow
  /\ UNCHANGED <<text, list, polled, recipients, tokens, request, mishaps, history>>

\* After a time-out nobody knows whether the provider took the text.
Post(outcome) ==
  /\ job.at = "gates"
  /\ \/ /\ outcome \in {"accepted", "ambiguous"}
        /\ posts' = [posts EXCEPT ![job.id] = @ + 1]
     \/ outcome # "accepted" /\ UNCHANGED posts
  /\ job' = [job EXCEPT !.at = "answered", !.outcome = outcome]
  /\ UNCHANGED <<text, list, polled, desk, mishaps, hits>>

\* A time-out taken for a failed send.
RetriesTimeout(outcome, attempts) ==
  CASE outcome = "accepted"    -> "SENT"
    [] outcome = "blacklisted" -> "SKIPPED"
    [] outcome # "refused" /\ attempts < MaxAttempts -> "QUEUED"
    [] OTHER                   -> "FAILED"

\* A refused text whose row is not saved.
ForgetsRefusal(outcome, attempts) ==
  CASE outcome = "accepted"    -> "SENT"
    [] outcome = "ambiguous"   -> "PENDING_UNKNOWN"
    [] outcome = "blacklisted" -> "SKIPPED"
    [] outcome \in {"retryable", "thrown"} /\ attempts < MaxAttempts -> "QUEUED"
    [] OTHER                   -> "SENDING"

StatusFor(outcome, attempts) ==
  CASE outcome = "accepted"    -> "SENT"
    [] outcome = "ambiguous"   -> "PENDING_UNKNOWN"
    [] outcome = "blacklisted" -> "SKIPPED"
    [] outcome \in {"retryable", "thrown"} /\ attempts < MaxAttempts -> "QUEUED"
    [] OTHER                   -> "FAILED"

\* Such a text is put back, and its save is returned, not awaited.
PutsBack == job.outcome = "retryable" /\ job.attempts < MaxAttempts

Record ==
  /\ job.at = "answered"
  /\ Save(StatusFor(job.outcome, job.attempts))
  /\ IF PutsBack THEN NextRow ELSE Go("tally")
  /\ UNCHANGED <<list, polled, desk, mishaps, history>>

\* maybeCompleteCampaign: a count, then an update that looks at nothing.
CountWaiting ==
  /\ job.at = "tally"
  /\ IF \E p \in Phones : text[p].status \in Waiting THEN NextRow ELSE Go("complete")
  /\ UNCHANGED <<text, list, polled, desk, mishaps, history>>

Complete ==
  /\ job.at = "complete"
  /\ campaign' = "COMPLETED"
  /\ NextRow
  /\ UNCHANGED <<text, list, polled, recipients, tokens, request, mishaps, history>>

----------------------------------------------------------------------------
(* Mishaps.                                                                 *)

\* The text of the campaign a call has claimed and not yet saved.
Held == {p \in Phones : job.at \in {"gates", "answered"} /\ job.id = p}

\* What follows the answer of the provider is awaited inside one try, the completion
\* of the campaign included; what follows a gate or the catch is not.
InTry    == /\ job.at \in {"answered", "tally", "complete"}
            /\ job.outcome \notin {"none", "thrown"} /\ ~PutsBack
WentOut  == job.outcome \in {"accepted", "ambiguous"}
Hit(lot) == hits' = [p \in Phones |-> IF p \in lot THEN hits[p] + 1 ELSE hits[p]]

\* A statement of the try fails: the catch takes it for a failed send, and Record
\* writes that over whatever was saved.
Caught ==
  /\ mishaps < MaxMishaps
  /\ InTry
  /\ job' = [job EXCEPT !.at = "answered", !.outcome = "thrown"]
  /\ IF WentOut THEN Hit({job.id}) ELSE Hit(Held)
  /\ mishaps' = mishaps + 1
  /\ UNCHANGED <<text, list, polled, desk, posts>>

\* A statement nobody catches fails: the call ends, and the job with its whole list.
Breaks ==
  /\ mishaps < MaxMishaps
  /\ job.at # "idle" /\ ~InTry
  /\ Hit(Held)
  /\ job' = Resting
  /\ list' = {}
  /\ mishaps' = mishaps + 1
  /\ UNCHANGED <<text, polled, desk, posts>>

\* A request ends at any point: a statement of its own failed, or a refusal.
RequestFails(r) ==
  /\ mishaps < MaxMishaps
  /\ request[r].at # "idle"
  /\ Done(r)
  /\ mishaps' = mishaps + 1
  /\ UNCHANGED <<campaign, recipients, tokens, queue, history>>

Restart ==
  /\ mishaps < MaxMishaps
  /\ request' = [r \in Requests |-> Idle]
  /\ job' = Resting
  /\ list' = {}
  /\ polled' = {}
  /\ Hit(Held)
  /\ mishaps' = mishaps + 1
  /\ UNCHANGED <<text, campaign, recipients, tokens, posts>>

----------------------------------------------------------------------------
(* pollDelivery: reports of texts the provider took.                        *)

\* A text without an id of the provider is skipped; which ones have one is left open.
ReadReport(p) ==
  /\ text[p].status \in {"SENT", "PENDING_UNKNOWN"}
  /\ polled' = polled \cup {[id |-> p, status |-> text[p].status, attempts |-> text[p].attempts]}
  /\ UNCHANGED <<text, job, list, desk, mishaps, history>>

\* The copy is saved with what was reported, or as it was.
SaveReport(copy, status) ==
  /\ copy \in polled
  /\ text' = [text EXCEPT ![copy.id] = [status |-> status, attempts |-> copy.attempts]]
  /\ polled' = polled \ {copy}
  /\ UNCHANGED <<job, list, desk, mishaps, history>>

----------------------------------------------------------------------------

RequestStep(r) ==
  \/ \E op \in Ops \ {"confirm"} : ReadCampaign(r, op, 0)
  \/ \E token \in unused : ReadCampaign(r, "confirm", token)
  \/ CountAudience(r) \/ ClearRecipients(r) \/ IssueToken(r)
  \/ \E audience \in SUBSET Phones : FillRecipients(r, audience)
  \/ SaveCampaign(r) \/ MoveTexts(r)
  \/ ReadRecipients(r) \/ (\E p \in Phones : FindText(r, p)) \/ InsertText(r) \/ FinishEnqueue(r)

Dispatch ==
  \/ Claim
  \/ \E status \in {"SKIPPED", "FAILED"} : Refuse(status)
  \/ Defer \/ RunShort \/ PauseForCredit
  \/ \E outcome \in Outcomes \ {"none"} : Post(outcome)
  \/ Record \/ CountWaiting \/ Complete

ListStep ==
  \/ \E due \in SUBSET Phones : ReadQueue(due)
  \/ \E row \in list : TakeRow(row) \/ PutOff(row)
  \/ EndRound

SmsNext ==
  \/ \E r \in Requests : RequestStep(r) \/ RequestFails(r)
  \/ ListStep
  \/ Dispatch
  \/ Caught \/ Breaks \/ Restart
  \/ \E p \in Phones : ReadReport(p)
  \/ \E copy \in polled : \E status \in {copy.status, "DELIVERED", "UNDELIVERED"} :
       SaveReport(copy, status)

SmsSpec == SmsInit /\ [][SmsNext]_vars

(* The job runs every minute and goes through its list; rows are read in    *)
(* the order they are due, so a queued row is read again and again; and the *)
(* hours of promotion come back every day.                                  *)
FairJob ==
  /\ WF_vars(ListStep)
  /\ WF_vars(Dispatch)
  /\ \A p \in Phones : /\ SF_vars(\E due \in SUBSET Phones : p \in due /\ ReadQueue(due))
                       /\ SF_vars(\E row \in list : row.id = p /\ TakeRow(row))

FairSmsSpec == SmsSpec /\ FairJob

----------------------------------------------------------------------------
(* Properties.                                                              *)

Listed(p)  == \E row \in list : row.id = p
Working(p) == job.id = p /\ job.at \notin {"idle", "loop"}
Sent(p)    == job.id = p /\ job.at = "answered" /\ WentOut

\* It went out and nobody is about to send it: the job has at most to close the campaign.
AtRest(p) == /\ text[p].status \in GoneOut
             /\ ~Listed(p)
             /\ Working(p) => job.at \in {"tally", "complete"} /\ WentOut

\* A post more than the mishaps that hit the text only while it rests or is being recorded.
PostsCovered(p) == posts[p] <= hits[p] + (IF AtRest(p) \/ Sent(p) THEN 1 ELSE 0)

\* A text no mishap hit.
InOrder(p) == /\ text[p].status \in GoneOut => AtRest(p)
              /\ \A copy \in polled : copy.id = p => text[p].status \in GoneOut
              /\ text[p].status = "SENDING" => Held = {p}

JobHasText     == job.at \notin {"idle", "loop"} => job.id \in Phones
InsertHasPhone == \A r \in Requests : request[r].at = "insert" => request[r].phone \in Phones

(* What holds the queue together: a text is in the list of the job once, or *)
(* the job works on it, or neither; a text nothing went wrong with is        *)
(* nowhere in there once it went out, and the job's while it is claimed; and *)
(* each mishap pays for one more post of the text it hit, no more.           *)
SmsIInv ==
  /\ SmsTypeOK
  /\ JobHasText
  /\ InsertHasPhone
  /\ \A x, y \in list : x.id = y.id => x = y
  /\ \A p \in Phones : Listed(p) => ~Working(p)
  /\ \A p \in Phones : PostsCovered(p)
  /\ \A p \in Phones : hits[p] = 0 => InOrder(p)

(* The provider takes the text to a recipient of a campaign once, however   *)
(* the job, pauses, resumptions, cancellations and overlapping requests      *)
(* interleave, and at most once more for each mishap that lost its claim or  *)
(* outcome: a restart, or a failing statement after the answer, upon which   *)
(* the code puts a text that was sent back into the queue (847-854).         *)
NoDoubleText == \A p \in Phones : posts[p] <= 1 + hits[p]

(* A text of the campaign that went out, or may have, never waits again and *)
(* is never reported as cancelled, paused or failed, unless a mishap hit it: *)
(* the catch of dispatchMessage takes back an outcome that was saved when    *)
(* the completion of the campaign fails after it (809, 816, 847-854).        *)
OutcomeStays ==
  [][\A p \in Phones :
       hits[p] = 0 /\ text[p].status \in GoneOut => text'[p].status \in GoneOut]_vars

(* No text of the campaign stays queued for ever without being claimed, and *)
(* none stays claimed for ever unless a mishap ended its call.               *)
TextsMoveOn ==
  \A p \in Phones :
    /\ text[p].status = "QUEUED" ~> text[p].status # "QUEUED"
    /\ text[p].status = "SENDING" /\ hits[p] = 0 ~> text[p].status # "SENDING" \/ hits[p] > 0
=============================================================================
