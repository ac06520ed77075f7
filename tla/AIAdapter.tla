----------------------------- MODULE AIAdapter -----------------------------
(***************************************************************************)
(* aiAdapter.Call (pkg/ai): download the attachments within a byte and a   *)
(* time budget, then send the request, again after a backoff while the     *)
(* failure is a transient one, each attempt under a timeout of its own and *)
(* all of them under a ceiling.                                            *)
(*                                                                         *)
(* Time is counted in ticks, from 0 for the downloads and from 0 again for *)
(* the attempts.  It passes while the goroutine waits; a timer or context  *)
(* deadline takes effect at most Late ticks after it is due, so whether it *)
(* has fired is a choice in between.                                       *)
(***************************************************************************)
EXTENDS Integers, Sequences, SequencesExt, TurnContext

CONSTANTS
    TimeoutSettings,        \* values of AI_CALL_TIMEOUT_SECONDS
    RetrySettings,          \* values of AI_CALL_MAX_RETRIES
    BaseSettings,           \* values of AI_CALL_RETRY_BASE_MS
    DefaultBase,            \* the base NewAIAdapter falls back to
    Grain,                  \* a millisecond is a multiple of 2^Grain units of time
    MaxBackoff,             \* maxBackoff
    Width,                  \* bits of a time.Duration
    MaxAttachment,          \* maxAttachmentBytes
    MaxAttachmentsTotal,    \* maxAttachmentsTotalBytes
    MaxDownload,            \* maxAttachmentDownload
    TimeFactor,             \* attachmentsTotalTimeFactor
    Sizes,                  \* sizes of the bodies that media hosts serve
    MaxItems,               \* bound: attachments of one turn
    Late                    \* how late a timer may fire

\* The lateness of all timers of one call must fit in the one attempt of slack
\* that the ceiling has.
ASSUME AdapterAssumption ==
    /\ TimeoutSettings \subseteq Int
    /\ RetrySettings \subseteq Int
    /\ BaseSettings \subseteq Int
    /\ DefaultBase \in Nat \ {0}
    /\ MaxBackoff \in Nat /\ MaxBackoff >= 2
    /\ Width \in Nat /\ Grain \in 1 .. Width - 1
    /\ MaxAttachment \in Nat \ {0}
    /\ MaxAttachmentsTotal \in Nat \ {0}
    /\ MaxDownload \in Nat \ {0}
    /\ TimeFactor \in Nat \ {0}
    /\ Sizes \subseteq Nat
    /\ MaxItems \in Nat
    /\ Late \in Nat
    /\ \A t \in TimeoutSettings, r \in RetrySettings :
          t > 0 => Late < t /\ (r > 0 => (2 * r + 1) * Late < t)

VARIABLES
    config,     \* the adapter's fields
    items,      \* attachments still to be looked at
    room,       \* remaining: bytes left of the total
    forwarded,  \* sizes of the file parts built so far
    callPc,     \* what the call does next, or waits for
    now,        \* ticks since the downloads, or the attempts, began
    budget,     \* deadline of budgetCtx
    ceiling,    \* deadline of overallCtx, when there is one
    due,        \* deadline of the wait under way
    attempt,    \* retries begun
    answered,   \* the attempt under way has got an HTTP status
    outcome     \* what Call returned

adapterVars == <<config, items, room, forwarded, callPc, now, budget, ceiling,
                 due, attempt, answered, outcome>>

Waits == {"download", "request", "body", "backoff"}
CallPcs == Waits \cup {"media", "attempt", "done"}

\* ErrPipelineCancelled, ErrAITimeout and any other error.
Outcomes == {"none", "ok", "cancelled", "timeout", "error"}

\* An attachment without URL, one that checkMediaURL blocks, one it lets through.
Urls == {"none", "blocked", "allowed"}

Lesser(a, b) == IF a < b THEN a ELSE b

-----------------------------------------------------------------------------
(* Configuration. *)

\* Variant: a negative number of retries is kept, and no attempt is made.
NewAIAdapterUnclamped(timeout, retries, base) ==
    [timeout |-> timeout,
     retries |-> retries,
     base    |-> IF base <= 0 THEN DefaultBase ELSE base]

NewAIAdapter(timeout, retries, base) ==
    [timeout |-> timeout,
     retries |-> IF retries < 0 THEN 0 ELSE retries,
     base    |-> IF base <= 0 THEN DefaultBase ELSE base]

Configs == {NewAIAdapter(t, r, b) : t \in TimeoutSettings, r \in RetrySettings, b \in BaseSettings}

AttachmentTimeout(c) ==
    IF c.timeout > 0 /\ c.timeout < MaxDownload THEN c.timeout ELSE MaxDownload

\* 2^n.
Pow2(n) ==
    LET pow[k \in 0 .. n] == IF k = 0 THEN 1 ELSE 2 * pow[k - 1]
    IN  pow[n]

\* The two's complement value that n has in Width bits.
Wrapped(n) == ((n + Pow2(Width - 1)) % Pow2(Width)) - Pow2(Width - 1)

\* The worst case of all attempts fits a duration; a base is a number of
\* milliseconds, and the cap is short enough for a shift that overflows to show.
ASSUME WidthAssumption ==
    /\ \A c \in Configs : (c.retries + 2) * c.timeout + c.retries * MaxBackoff < Pow2(Width - 1)
    /\ \A c \in Configs : c.base % Pow2(Grain) = 0
    /\ MaxBackoff * MaxBackoff < Pow2(Width - 1 + Grain)

\* Variant: the attempts without the slack.
CeilingBare(c) == Wrapped((c.retries + 1) * c.timeout)

\* Attempts, backoffs, and one attempt of slack, in a time.Duration.
Ceiling(c) == Wrapped((c.retries + 2) * c.timeout + c.retries * MaxBackoff)

\* Variant: a long backoff is not cut.
BackoffUncapped(n) ==
    LET d == Wrapped(config.base * Pow2(n - 1))
    IN  IF d <= 0 THEN MaxBackoff ELSE d

\* The n-th backoff before jitter; Go's << drops the bits that do not fit.
Backoff(n) ==
    LET d == Wrapped(config.base * Pow2(n - 1))
    IN  IF d <= 0 \/ d > MaxBackoff THEN MaxBackoff ELSE d

\* Variant: the jitter is all there is.
JitterAlone(n) == 0 .. Backoff(n)

\* Half of it and up to as much again.
BackoffDelays(n) == LET half == Backoff(n) \div 2 IN half .. 2 * half

-----------------------------------------------------------------------------
(* Attachments. *)

\* Bytes the next file may have; variant: the per-file cap alone.
LimitPerFile == MaxAttachment
Limit == Lesser(MaxAttachment, room)

\* A deadline may take effect from the tick it is due, and must Late ticks on.
MayHaveFired(d) == now >= d
MustHaveFired(d) == now >= d + Late

BudgetMayBeSpent == cancelled \/ MayHaveFired(budget)
BudgetMayRemain == ~cancelled /\ ~MustHaveFired(budget)

SkipItem ==
    /\ callPc = "media"
    /\ items # <<>>
    /\ Head(items) \in {"none", "blocked"}
    /\ items' = Tail(items)
    /\ UNCHANGED <<config, room, forwarded, callPc, now, budget, ceiling, due,
                   attempt, answered, outcome, cancelled>>

\* Nothing left, or break: the rest is dropped, and the request goes out.
StopMedia ==
    /\ callPc = "media"
    /\ \/ items = <<>>
       \/ /\ items # <<>>
          /\ Head(items) = "allowed"
          /\ BudgetMayBeSpent \/ Limit <= 0
    /\ callPc' = "attempt"
    /\ items' = <<>>
    /\ now' = 0
    /\ ceiling' = Ceiling(config)
    /\ UNCHANGED <<config, room, forwarded, budget, due, attempt, answered, outcome, cancelled>>

\* Variant: the download has its own timeout and not what is left of the budget.
DownloadDeadlineAlone == now + AttachmentTimeout(config)
DownloadDeadline == Lesser(now + AttachmentTimeout(config), budget)

StartDownload ==
    /\ callPc = "media"
    /\ items # <<>>
    /\ Head(items) = "allowed"
    /\ BudgetMayRemain
    /\ Limit > 0
    /\ callPc' = "download"
    /\ due' = DownloadDeadline
    /\ UNCHANGED <<config, items, room, forwarded, now, budget, ceiling, attempt,
                   answered, outcome, cancelled>>

\* A body of n bytes that resolveMimeType takes for media becomes a file part.
Forward(n) ==
    /\ n <= Limit
    /\ room' = room - n
    /\ forwarded' = Append(forwarded, n)

\* Refused, not 200, oversized, late, cut short by a cancel, or no media.
PassOver == UNCHANGED <<room, forwarded>>

EndDownload ==
    /\ callPc = "download"
    /\ \/ PassOver
       \/ ~MustHaveFired(due) /\ (\E n \in Sizes : Forward(n))
    /\ callPc' = "media"
    /\ items' = Tail(items)
    /\ UNCHANGED <<config, now, budget, ceiling, due, attempt, answered, outcome, cancelled>>

-----------------------------------------------------------------------------
(* Attempts. *)

\* overallCtx: the turn's context, under a ceiling only where there is a timeout.
HasCeiling == config.timeout > 0

CallMayBeOver == cancelled \/ (HasCeiling /\ MayHaveFired(ceiling))
CallMayGoOn == ~cancelled /\ ~(HasCeiling /\ MustHaveFired(ceiling))

Return(o) ==
    /\ callPc' = "done"
    /\ outcome' = o
    /\ UNCHANGED <<due, attempt>>

\* A transient failure: another attempt after a backoff, unless this was the last.
Retry ==
    \/ attempt = config.retries /\ Return("error")
    \/ /\ attempt < config.retries
       /\ callPc' = "backoff"
       /\ attempt' = attempt + 1
       /\ \E d \in BackoffDelays(attempt + 1) : due' = now + d
       /\ UNCHANGED outcome

EndBackoff ==
    /\ callPc = "backoff"
    /\ \/ CallMayBeOver /\ Return("cancelled")
       \/ MayHaveFired(due) /\ callPc' = "attempt" /\ UNCHANGED <<due, attempt, outcome>>
    /\ UNCHANGED <<config, items, room, forwarded, now, budget, ceiling, answered, cancelled>>

\* The timeout of an attempt starts with it; one of zero is over at once.  A URL
\* that does not parse is an error at once too.
Send ==
    /\ callPc = "attempt"
    /\ answered' = FALSE
    /\ \/ /\ callPc' = "request"
          /\ due' = IF HasCeiling THEN Lesser(now + config.timeout, ceiling) ELSE now
          /\ UNCHANGED <<attempt, outcome>>
       \/ Return("error")
    /\ UNCHANGED <<config, items, room, forwarded, now, budget, ceiling, cancelled>>

\* Variant: the attempt's own timeout is looked at before the call's context.
RequestFailsTimeoutFirst ==
    /\ callPc = "request"
    /\ \/ MayHaveFired(due) /\ Return("timeout")
       \/ CallMayBeOver /\ Return("cancelled")
       \/ CallMayGoOn /\ HasCeiling /\ ~MustHaveFired(due) /\ Retry
    /\ UNCHANGED <<config, items, room, forwarded, now, budget, ceiling, answered, cancelled>>

\* client.Do fails: by the call's context, by the attempt's own timeout, or by
\* the network, for which the attempt must still have time.
RequestFails ==
    /\ callPc = "request"
    /\ \/ CallMayBeOver /\ Return("cancelled")
       \/ CallMayGoOn /\ MayHaveFired(due) /\ Return("timeout")
       \/ CallMayGoOn /\ HasCeiling /\ ~MustHaveFired(due) /\ Retry
    /\ UNCHANGED <<config, items, room, forwarded, now, budget, ceiling, answered, cancelled>>

\* A status comes, though a cancel may have come just before: 200, a transient
\* one (429, 500, 502, 503, 504), or a permanent one.
Responds ==
    /\ callPc = "request"
    /\ HasCeiling
    /\ ~MustHaveFired(due)
    /\ answered' = TRUE
    /\ \/ callPc' = "body" /\ UNCHANGED <<due, attempt, outcome>>
       \/ Retry
       \/ Return("error")
    /\ UNCHANGED <<config, items, room, forwarded, now, budget, ceiling, cancelled>>

\* The body is read and decoded.  A failure is an error whatever its cause:
\* a body that is no JSON, the attempt's timeout, or a cancel.
Decode ==
    /\ callPc = "body"
    /\ \/ ~MustHaveFired(due) /\ Return("ok")
       \/ Return("error")
    /\ UNCHANGED <<config, items, room, forwarded, now, budget, ceiling, answered, cancelled>>

\* Time passes while the call waits, until it must have noticed what it waits for.
Tick ==
    /\ callPc \in Waits
    /\ ~cancelled
    /\ ~MustHaveFired(due)
    /\ now' = now + 1
    /\ UNCHANGED <<config, items, room, forwarded, callPc, budget, ceiling, due,
                   attempt, answered, outcome, cancelled>>

-----------------------------------------------------------------------------
(* The call. *)

\* An adapter, and the attachments of a window.
StartCall(c, atts) ==
    /\ config = c
    /\ items = atts
    /\ budget = TimeFactor * AttachmentTimeout(c)

CallInit ==
    /\ \E c \in Configs, atts \in BoundedSeq(Urls, MaxItems) : StartCall(c, atts)
    /\ room = MaxAttachmentsTotal
    /\ forwarded = <<>>
    /\ callPc = "media"
    /\ now = 0
    /\ ceiling = 0
    /\ due = 0
    /\ attempt = 0
    /\ answered = FALSE
    /\ outcome = "none"

CallStep ==
    \/ SkipItem \/ StopMedia \/ StartDownload \/ EndDownload
    \/ Send \/ RequestFails \/ Responds \/ Decode \/ EndBackoff

-----------------------------------------------------------------------------
(* Properties. *)

\* Every variable of the call has its type.
CallTypeOK ==
    /\ config \in Configs
    /\ items \in Seq(Urls) /\ Len(items) <= MaxItems
    /\ room \in 0 .. MaxAttachmentsTotal
    /\ forwarded \in Seq(Nat)
    /\ callPc \in CallPcs
    /\ {now, budget, due} \subseteq Nat /\ ceiling \in Int
    /\ attempt \in 0 .. config.retries
    /\ answered \in BOOLEAN
    /\ outcome \in Outcomes

\* The bytes of all files together.
Total(sizes) ==
    LET upTo[k \in 0 .. Len(sizes)] == IF k = 0 THEN 0 ELSE upTo[k - 1] + sizes[k]
    IN  upTo[Len(sizes)]

\* The files sent fit the total, and each of them the per-file cap: a burst of
\* attachments, each small enough, cannot make a body the gateway rejects
\* (maxAttachmentsTotalBytes in buildFileParts).
MediaWithinBudget ==
    /\ Total(forwarded) <= MaxAttachmentsTotal
    /\ \A k \in DOMAIN forwarded : forwarded[k] <= MaxAttachment

\* The downloads of all attachments together hold the AI request back for a
\* fixed time, whatever the number of attachments and the AI timeout
\* (attachmentsTotalTimeFactor x maxAttachmentDownload).
MediaTimeBounded ==
    callPc \in {"media", "download"} => now <= TimeFactor * MaxDownload + Late

\* Before a retry there is a real wait: at least half of base * 2^retries or of the
\* cap, and never more than the cap, though the shift in the code overflows: "base *
\* 2^(attempt-1)", "capped at maxBackoff", "keep at least half the delay"
\* (backoffDelay and the select in Call).
RetriesBackOff ==
    [][ callPc = "request" /\ callPc' = "backoff" =>
            LET wait == due' - now
            IN  /\ wait \in 1 .. MaxBackoff
                /\ config.base <= MaxBackoff =>
                       2 * wait + 1 >= Lesser(config.base * Pow2(attempt), MaxBackoff)
      ]_adapterVars

\* The call says it was cancelled only when it was, and says so of a timeout only
\* after an attempt has had its whole timeout: the ceiling over all attempts
\* never swallows a timeout (the comment on the ceiling in Call).
OutcomeIsTrue ==
    /\ outcome = "cancelled" => cancelled
    /\ outcome = "timeout" /\ HasCeiling => due < ceiling

\* All attempts and backoffs take no longer than their worst case.
CallIsBounded ==
    HasCeiling /\ callPc \notin {"media", "download"} =>
        now <= (config.retries + 1) * (config.timeout + Late)
                  + config.retries * (MaxBackoff + Late)

\* A cancel seen while a request has no answer yet, or between two attempts, is
\* returned as ErrPipelineCancelled: it is never taken for a timeout or a network
\* failure, which would send the customer a failure notice (ctx.Err in doOnce).
CancelIsSeen ==
    [][ /\ outcome' # outcome
        /\ cancelled
        /\ callPc = "backoff" \/ (callPc = "request" /\ ~answered')
        => outcome' = "cancelled" ]_outcome

=============================================================================
