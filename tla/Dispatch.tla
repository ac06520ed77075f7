------------------------------ MODULE Dispatch ------------------------------
(***************************************************************************)
(* The dispatch engine (pkg/dispatch): take the media URLs out of the      *)
(* answer, cut the rest into parts, post the parts one after another with  *)
(* a delay between them, then post the media; stop where the context is    *)
(* found done.                                                             *)
(*                                                                         *)
(* A text is the sequence of its words; their characters count only by     *)
(* number, by the media URL that a word has in it, of which there is at    *)
(* most one, and by the words that a media URL's string occurs in.         *)
(***************************************************************************)
EXTENDS Integers, Sequences, SequencesExt, FiniteSets, FiniteSetsExt, TurnContext

CONSTANTS
    Words,          \* words of a text
    Runes,          \* [Words -> number of characters]
    MediaURLs,      \* URLs with a media extension, and what punctuation trails them
    URLOf,          \* [Words -> the media URL that urlRegex finds in it, or Nothing]
    Within,         \* <<u, w>>: the string of media URL u occurs in the word w
    Torn,           \* [Within -> what is left of w without it, or Nothing]
    Nothing,        \* no word, and no URL
    Limits,         \* text_segmentation_limit
    MinSizes,       \* text_segmentation_min_size
    Texts           \* bound: the answers and notices looked at

ASSUME DispatchAssumption ==
    /\ Runes \in [Words -> Nat \ {0}]
    /\ Nothing \notin Words \cup MediaURLs
    /\ URLOf \in [Words -> MediaURLs \cup {Nothing}]
    /\ Within \subseteq MediaURLs \X Words
    /\ Torn \in [Within -> Words \cup {Nothing}]
    /\ \A w \in Words : URLOf[w] # Nothing => <<URLOf[w], w>> \in Within
    /\ Limits \subseteq Int /\ Limits # {}
    /\ MinSizes \subseteq Int /\ MinSizes # {}
    /\ Texts \subseteq Seq(Words)

VARIABLES
    content,    \* the answer, or the failure notice
    bot,        \* its BotConfig
    plan,       \* what goes through the loop: parts, and media if there is any
    next,       \* index of the piece at hand
    sendPc,     \* what Dispatch does next, or waits for
    wire,       \* the pieces the CRM has received, and whether after a cancel
    result      \* how it ended

dispatchVars == <<content, bot, plan, next, sendPc, wire, result>>

\* The bot configurations that MessageEvent.Validate lets in.
Valid(b) == b.segment => b.limit > 0

Bots == {b \in [segment : BOOLEAN, limit : Limits, minSize : MinSizes,
                signed : BOOLEAN, delay : BOOLEAN] : Valid(b)}

-----------------------------------------------------------------------------
(* Media URLs. *)

\* strings.Replace(residual, rawURL, "", 1): the first place where the string
\* occurs, which may be in the middle of an earlier word.
RemoveURL(text, u) ==
    LET at == Min({k \in DOMAIN text : <<u, text[k]>> \in Within})
        left == Torn[<<u, text[at]>>]
    IN  IF left = Nothing THEN RemoveAt(text, at) ELSE ReplaceAt(text, at, left)

\* A media URL, the whole of a word or a part of it, is noted and removed; any other
\* URL stays (continue).
TakeMedia(found, u) ==
    IF u = Nothing THEN found
    ELSE [residual |-> RemoveURL(found.residual, u), atts |-> Append(found.atts, u)]

\* The media URLs of a text, in order, and what is left without them.
ExtractMediaURLs(text) ==
    LET found[k \in 0 .. Len(text)] ==
            IF k = 0 THEN [residual |-> text, atts |-> <<>>]
            ELSE TakeMedia(found[k - 1], URLOf[text[k]])
    IN  found[Len(text)]

-----------------------------------------------------------------------------
(* Segments. *)

\* The characters of words joined by single spaces.
Size(part) ==
    LET runes[k \in 0 .. Len(part)] == IF k = 0 THEN -1 ELSE runes[k - 1] + 1 + Runes[part[k]]
    IN  runes[Len(part)]

\* The words go to the last of the parts.
AddToLast(parts, words) == ReplaceAt(parts, Len(parts), Last(parts) \o words)

\* Both can be said in one message.
FitsLast(parts, words, limit) ==
    parts # <<>> /\ Size(Last(parts)) + 1 + Size(words) <= limit

\* A word goes to the part under construction while that stays within the limit.
PutWord(parts, w, limit) ==
    IF FitsLast(parts, <<w>>, limit) THEN AddToLast(parts, <<w>>) ELSE Append(parts, <<w>>)

Greedy(text, limit) ==
    LET rawParts[k \in 0 .. Len(text)] ==
            IF k = 0 THEN <<>> ELSE PutWord(rawParts[k - 1], text[k], limit)
    IN  rawParts[Len(text)]

\* A part shorter than minSize joins the one before, if both fit the limit.
PutPart(parts, part, minSize, limit) ==
    IF Size(part) < minSize /\ FitsLast(parts, part, limit)
    THEN AddToLast(parts, part)
    ELSE Append(parts, part)

MergeShort(parts, minSize, limit) ==
    LET merged[k \in 0 .. Len(parts)] ==
            IF k = 0 THEN <<>> ELSE PutPart(merged[k - 1], parts[k], minSize, limit)
    IN  merged[Len(parts)]

\* Variant: a short part is merged whatever the size of the result.
MergeAll(parts, b) == MergeShort(parts, b.minSize, Size(FlattenSeq(parts)))

Merge(parts, b) == IF b.minSize <= 0 THEN parts ELSE MergeShort(parts, b.minSize, b.limit)

Whole(text, b) == ~b.segment \/ b.limit <= 0 \/ text = <<>>

\* Variant: a part that would be full to the last character is not filled.
SplitBelow(text, b) == IF Whole(text, b) THEN <<text>> ELSE Greedy(text, b.limit - 1)

\* Variant: the part under construction is not flushed at the end.
SplitUnflushed(text, b) == IF Whole(text, b) THEN <<text>> ELSE Front(Greedy(text, b.limit))

\* segmentContent is Merge(Split(text, b), b).
Split(text, b) == IF Whole(text, b) THEN <<text>> ELSE Greedy(text, b.limit)

\* What Dispatch goes through: the parts, the first with the signature before it,
\* and one piece with the media if there is any.
Pieces(parts, atts, b) ==
    LET part(k) == [signed |-> b.signed /\ k = 1, text |-> parts[k], atts |-> <<>>]
        last == [signed |-> FALSE, text |-> <<>>, atts |-> atts]
    IN  [k \in DOMAIN parts |-> part(k)] \o (IF atts = <<>> THEN <<>> ELSE <<last>>)

Empty(piece) == ~piece.signed /\ piece.text = <<>> /\ piece.atts = <<>>

-----------------------------------------------------------------------------
(* The loop. *)

Finish(r) ==
    /\ sendPc' = "done"
    /\ result' = r

\* What to send, one of some texts, with the configuration of the window.
StartDispatch(texts) ==
    /\ content' \in texts
    /\ bot' \in Bots
    /\ plan' = <<>>
    /\ next' = 1
    /\ sendPc' = "cut"
    /\ wire' = <<>>
    /\ result' = "none"

\* The work before the loop.
Cut ==
    /\ sendPc = "cut"
    /\ sendPc' = "check"
    /\ \E media \in {ExtractMediaURLs(content)} :
       \E raw \in {Split(media.residual, bot)} :
       \E parts \in {Merge(raw, bot)} :
          plan' = Pieces(parts, media.atts, bot)
    /\ UNCHANGED <<content, bot, next, wire, result, cancelled>>

\* The number of text parts among the pieces.
LastPart == Len(SelectSeq(plan, LAMBDA piece : piece.atts = <<>>))

\* Variant: an empty piece is not passed over by the step that finds it empty.
SkipStays ==
    /\ sendPc = "check"
    /\ next <= Len(plan)
    /\ Empty(plan[next])
    /\ UNCHANGED <<content, bot, plan, next, sendPc, wire, result, cancelled>>

Skip ==
    /\ sendPc = "check"
    /\ next <= Len(plan)
    /\ Empty(plan[next])
    /\ next' = next + 1
    /\ UNCHANGED <<content, bot, plan, sendPc, wire, result, cancelled>>

\* Variant: the media is posted without a look at the context.
CheckTextOnly ==
    /\ sendPc = "check"
    /\ next <= Len(plan)
    /\ ~Empty(plan[next])
    /\ IF cancelled /\ next <= LastPart
       THEN Finish("interrupted")
       ELSE sendPc' = "post" /\ UNCHANGED result
    /\ UNCHANGED <<content, bot, plan, next, wire, cancelled>>

\* The context is looked at before every piece.
Check ==
    /\ sendPc = "check"
    /\ next <= Len(plan)
    /\ ~Empty(plan[next])
    /\ IF cancelled THEN Finish("interrupted") ELSE sendPc' = "post" /\ UNCHANGED result
    /\ UNCHANGED <<content, bot, plan, next, wire, cancelled>>

\* The CRM takes the piece.
Deliver == wire' = Append(wire, [piece |-> plan[next], late |-> cancelled])

\* Variant: a post that fails is tried again.
PostAgain ==
    /\ sendPc = "post"
    /\ Deliver \/ UNCHANGED wire
    /\ \/ next' = next + 1 \/ UNCHANGED next
    /\ sendPc' = "check"
    /\ UNCHANGED <<content, bot, plan, result, cancelled>>

\* client.Do on the turn's context: answered 2xx; or refused, lost, timed out or
\* cancelled, and the CRM may have taken the piece all the same.
Post ==
    /\ sendPc = "post"
    /\ \/ /\ Deliver
          /\ next' = next + 1
          /\ sendPc' = IF next < LastPart /\ bot.delay THEN "delay" ELSE "check"
          /\ UNCHANGED result
       \/ /\ Deliver \/ UNCHANGED wire
          /\ Finish("failed")
          /\ UNCHANGED next
    /\ UNCHANGED <<content, bot, plan, cancelled>>

\* The delay after a part is over, or the context is done; both may be so.
Delay ==
    /\ sendPc = "delay"
    /\ \/ cancelled /\ Finish("interrupted")
       \/ sendPc' = "check" /\ UNCHANGED result
    /\ UNCHANGED <<content, bot, plan, next, wire, cancelled>>

Sent ==
    /\ sendPc = "check"
    /\ next > Len(plan)
    /\ Finish("sent")
    /\ UNCHANGED <<content, bot, plan, next, wire, cancelled>>

\* A panic leaves the loop where it is; the CRM may have taken the piece.
DispatchPanics ==
    /\ sendPc \notin {"idle", "done"}
    /\ \/ UNCHANGED wire
       \/ sendPc = "post" /\ Deliver
    /\ Finish("panicked")
    /\ UNCHANGED <<content, bot, plan, next, cancelled>>

DispatchStep == Cut \/ Skip \/ Check \/ Post \/ Delay \/ Sent

-----------------------------------------------------------------------------
(* Properties. *)

DispatchTypeOK ==
    /\ content \in Texts \cup {<<>>}
    /\ bot \in Bots
    /\ \A k \in DOMAIN plan : plan[k].text \in Seq(Words) /\ plan[k].atts \in Seq(MediaURLs)
    /\ next \in 1 .. Len(plan) + 1
    /\ sendPc \in {"idle", "cut", "check", "post", "delay", "done"}
    /\ Len(wire) <= Len(plan)
    /\ result \in {"none", "sent", "interrupted", "failed", "panicked"}

\* What is cut depends on the content and the configuration only: it is enough to
\* look at it when a dispatch starts.
Residual == ExtractMediaURLs(content).residual
Parts == Merge(Split(Residual, bot), bot)
Starting == sendPc = "check" /\ next = 1

\* Cutting loses, doubles and moves no word: the parts, joined, are the text
\* (segmentContent).
TextKept == Starting => FlattenSeq(Parts) = Residual

\* A part is longer than the limit only if it is one long word (segmentContent).
SegmentsFit ==
    Starting /\ bot.segment =>
        \A k \in DOMAIN Parts : Size(Parts[k]) <= bot.limit \/ Len(Parts[k]) <= 1

\* The ways to cut a text into parts, each as the positions at which a part starts.
Cuts(text) == {{1} \cup starts : starts \in SUBSET (2 .. Len(text))}

\* A cut keeps the parts to the limit: no words that it leaves together are longer
\* (the whole part is the longest of them; one long word has to go as it is).
KeepsTo(limit, text, starts) ==
    \A i, j \in DOMAIN text :
        i < j /\ starts \cap (i + 1 .. j) = {} => Size(SubSeq(text, i, j)) <= limit

\* No other way to cut the text within the limit makes fewer messages of it: the
\* customer is never sent more than it takes (segmentContent's greedy loop).
FewestParts ==
    Starting /\ bot.segment /\ Residual # <<>> =>
        \A starts \in Cuts(Residual) :
            KeepsTo(bot.limit, Residual, starts) => Len(Parts) <= Cardinality(starts)

\* The parts "shorter than TextSegmentationMinSize" are merged with the part before
\* (the comments on segmentContent and on its second loop), so only the first of
\* several may be as short as that.
ShortPartsMerged ==
    Starting /\ bot.segment => \A k \in 2 .. Len(Parts) : Size(Parts[k]) >= bot.minSize

\* "non-media URL stays in the text" (extractMediaURLs): a word of the answer without
\* a media URL in it is still there as often as it was.
OtherWordsStay ==
    LET Count(text, w) == Cardinality({k \in DOMAIN text : text[k] = w})
    IN  Starting => \A w \in Words :
            URLOf[w] = Nothing => Count(content, w) <= Count(Residual, w)

\* The pieces among the first n that are not passed over.
Planned(pieces, n) ==
    LET upTo[k \in 0 .. n] ==
            IF k = 0 THEN <<>>
            ELSE IF Empty(pieces[k]) THEN upTo[k - 1] ELSE Append(upTo[k - 1], pieces[k])
    IN  upTo[n]

Received == [k \in DOMAIN wire |-> wire[k].piece]

\* What the CRM has received is a beginning of what was planned, each piece once
\* and the media last; a dispatch that says it is complete has sent all of it.
DeliveredIsPrefix ==
    /\ IsPrefix(Received, Planned(plan, Len(plan)))
    /\ result = "sent" => Received = Planned(plan, Len(plan))

\* A cancel lets at most the piece that is being posted get through: the customer
\* who writes again is not sent the rest of a superseded answer (the looks at
\* ctx.Done in Dispatch).
AtMostOneAfterCancel ==
    \A j, k \in DOMAIN wire : wire[j].late /\ wire[k].late => j = k

=============================================================================
