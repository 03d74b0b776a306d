------------------------------ MODULE Delivery ------------------------------
(***************************************************************************)
(* The secretary's briefs (secretary/service.py), their delivery to the    *)
(* channels (delivery/) and the Telegram user who answers what arrived.    *)
(* One composing process; every store helper commits by itself, so a crash *)
(* leaves what was committed before it.                                    *)
(***************************************************************************)
EXTENDS Integers, Sequences, FiniteSets

CONSTANTS
    MaxBriefs,      \* bound: briefs
    MaxRoots,       \* bound: briefs that refine no other
    Channels,       \* enabled_channels and telegram, in order, each of them once
    DigestChannels, \* enabled_channels alone, in the order of _build_channels
    Disabled,       \* channels whose own switch is off
    Modes,          \* modes to compose
    MaxDepth,       \* refinement.max_depth
    MaxAnswers,     \* bound: clicks and replies per brief
    MaxMishaps      \* bound: crashes, and sends or commits that fail

AllModes == {"deep_dive", "event_alert", "event_alert_light", "morning_digest", "refined"}

ASSUME DeliveryAssumption ==
    /\ MaxBriefs \in Nat /\ MaxRoots \in Nat /\ MaxDepth \in Nat /\ MaxAnswers \in Nat /\ MaxMishaps \in Nat
    /\ Len(Channels) \in Nat \ {0} /\ DOMAIN Channels = 1..Len(Channels)
    /\ Len(DigestChannels) \in Nat \ {0} /\ DOMAIN DigestChannels = 1..Len(DigestChannels)
    /\ \A m, n \in DOMAIN Channels : Channels[m] = Channels[n] => m = n
    /\ \A m, n \in DOMAIN DigestChannels : DigestChannels[m] = DigestChannels[n] => m = n
    /\ \A n \in DOMAIN DigestChannels : \E m \in DOMAIN Channels : DigestChannels[n] = Channels[m]
    /\ Modes \subseteq AllModes /\ Disabled \subseteq {Channels[n] : n \in DOMAIN Channels}

VARIABLES
    briefs,     \* the briefs table, a row for each id in order
    shown,      \* <<brief, channel>> whose message went out
    sends,      \* <<brief, channel>> -> the statuses of its deliveries rows
    offers,     \* brief -> the states of its run_backtest rows
    replies,    \* brief -> its refine_brief rows
    quietNow,   \* quiet hours
    work,       \* what the composing process is doing
    click,      \* the row a button was pressed for, not yet updated
    whole,      \* history: briefs composed and delivered to the end
    early,      \* history: briefs answered while they were delivered
    answers,    \* history: brief -> clicks and replies
    mishaps     \* history

deliveryVars == <<briefs, shown, sends, offers, replies, quietNow, work, click,
                  whole, early, answers, mishaps>>

BriefIds == 1..MaxBriefs
ChannelSet == {Channels[n] : n \in DOMAIN Channels}
AtRest == [step |-> "rest"]
Unpressed == [brief |-> 0, row |-> 0]
IsBrief(b) == b \in DOMAIN briefs

DeliveryInit ==
    /\ briefs = <<>> /\ shown = {}
    /\ sends = [s \in BriefIds \X ChannelSet |-> <<>>]
    /\ offers = [b \in BriefIds |-> <<>>] /\ replies = [b \in BriefIds |-> 0]
    /\ quietNow \in BOOLEAN
    /\ work = AtRest /\ click = Unpressed
    /\ whole = {} /\ early = {} /\ answers = [b \in BriefIds |-> 0] /\ mishaps = 0

Mishap == mishaps < MaxMishaps /\ mishaps' = mishaps + 1
-----------------------------------------------------------------------------
(* Composing.  The analyses come first: when they fail there is no brief. *)

\* insert_brief; refine_depth is 0 by default.  chain is history: the true
\* number of refinements.
InsertBrief(mode, chain) ==
    /\ Len(briefs) < MaxBriefs
    /\ briefs' = Append(briefs, [mode |-> mode, depth |-> 0, chain |-> chain])

Working(step, n) == [step |-> step, brief |-> Len(briefs) + 1, n |-> n, depth |-> 0]

\* compose_deep_dive, compose_event_alert (its pack is written in between),
\* compose_event_alert_light.
Compose(mode) ==
    /\ work = AtRest /\ mode # "refined"
    /\ Cardinality({b \in DOMAIN briefs : briefs[b].mode # "refined"}) < MaxRoots
    /\ InsertBrief(mode, 0)
    /\ work' = Working("gate", 1)
    /\ UNCHANGED <<shown, sends, offers, replies, quietNow, click, whole, early, answers, mishaps>>

\* Wrong: one refinement too many.
MayRefineOnce(b) == briefs[b].depth <= MaxDepth

MayRefine(b) == briefs[b].depth < MaxDepth

\* compose_refinement: the depth is checked before the analysis; the new brief
\* is not delivered.
ComposeRefinement(b) ==
    /\ work = AtRest /\ IsBrief(b)
    /\ MayRefine(b)
    /\ InsertBrief("refined", briefs[b].chain + 1)
    /\ work' = [Working("depth", 0) EXCEPT !.depth = briefs[b].depth + 1]
    /\ UNCHANGED <<shown, sends, offers, replies, quietNow, click, whole, early, answers, mishaps>>

\* update_brief_refine_metadata
UpdateRefineMetadata ==
    /\ work.step = "depth"
    /\ briefs' = [briefs EXCEPT ![work.brief].depth = work.depth]
    /\ work' = AtRest /\ whole' = whole \cup {work.brief}
    /\ UNCHANGED <<shown, sends, offers, replies, quietNow, click, early, answers, mishaps>>
-----------------------------------------------------------------------------
(* Delivering: _deliver_* goes through the channels, a failure of one is    *)
(* recorded and the next is tried.  The command that composes a digest      *)
(* takes its channels without telegram, unless it is enabled as a channel,  *)
(* and catches nothing itself: what send does not record ends its loop.     *)

\* names of _deliver_*, and _build_channels for the digest.
ChannelsFor(mode) == IF mode = "morning_digest" THEN DigestChannels ELSE Channels

GoesTo(mode) == {ChannelsFor(mode)[n] : n \in DOMAIN ChannelsFor(mode)}

Mode == briefs[work.brief].mode
Route == ChannelsFor(Mode)
Channel == Route[work.n]
Here == <<work.brief, Channel>>

\* insert_delivery
InsertDelivery(result) == sends' = [sends EXCEPT ![Here] = Append(@, result)]

NextChannel ==
    IF work.n < Len(Route)
    THEN /\ work' = [work EXCEPT !.n = @ + 1, !.step = "gate"] /\ UNCHANGED whole
    ELSE /\ work' = AtRest /\ whole' = whole \cup {work.brief}

\* TelegramOutbound.send and EmailOutbound.send: their own switch comes first;
\* base.send: quiet hours hold back the alerts only.
Skipped(b, ch) ==
    \/ ch \in Disabled
    \/ quietNow /\ briefs[b].mode \in {"event_alert", "event_alert_light"}

Gate ==
    /\ work.step = "gate"
    /\ IF Skipped(work.brief, Channel)
       THEN InsertDelivery("skipped") /\ NextChannel
       ELSE /\ work' = [work EXCEPT !.step = "send"] /\ UNCHANGED <<sends, whole>>
    /\ UNCHANGED <<briefs, shown, offers, replies, quietNow, click, early, answers, mishaps>>

\* Building or rendering for the channel fails, or the 'skipped' row does: the
\* try of _deliver_* records it.
RenderFails ==
    /\ work.step = "gate" /\ Mode # "morning_digest" /\ Mishap
    /\ InsertDelivery("failed") /\ NextChannel
    /\ UNCHANGED <<briefs, shown, offers, replies, quietNow, click, early, answers>>

\* _send_impl returns ...
SendImpl ==
    /\ work.step = "send"
    /\ shown' = shown \cup {Here}
    /\ work' = [work EXCEPT !.step = "row"]
    /\ UNCHANGED <<briefs, sends, offers, replies, quietNow, click, whole, early, answers, mishaps>>

\* Wrong: a channel that fails ends the delivery.
SendFailsAll ==
    /\ work.step = "send" /\ Mishap
    /\ shown' \in {shown, shown \cup {Here}}
    /\ InsertDelivery("failed") /\ work' = AtRest /\ whole' = whole \cup {work.brief}
    /\ UNCHANGED <<briefs, offers, replies, quietNow, click, early, answers>>

\* ... or raises, when the message may have gone out all the same: the wait
\* for the answer has a timeout.
SendFails ==
    /\ work.step = "send" /\ Mishap
    /\ shown' \in {shown, shown \cup {Here}}
    /\ InsertDelivery("failed") /\ NextChannel
    /\ UNCHANGED <<briefs, offers, replies, quietNow, click, early, answers>>

SentRow ==
    /\ work.step = "row"
    /\ InsertDelivery("sent")
    /\ IF Mode = "event_alert"
       THEN work' = [work EXCEPT !.step = "count"] /\ UNCHANGED whole
       ELSE NextChannel
    /\ UNCHANGED <<briefs, shown, offers, replies, quietNow, click, early, answers, mishaps>>

\* Wrong: only the actions that wait for an answer count.
CountWaiting(b) == Cardinality({n \in DOMAIN offers[b] : offers[b][n] = "pending"})

\* count_brief_actions: every action of the brief counts.
CountActions(b) == Len(offers[b]) + replies[b]

\* _ensure_pending_action: the count ...
EnsureCounts ==
    /\ work.step = "count"
    /\ IF CountActions(work.brief) > 0 THEN NextChannel
       ELSE work' = [work EXCEPT !.step = "offer"] /\ UNCHANGED whole
    /\ UNCHANGED <<briefs, shown, sends, offers, replies, quietNow, click, early, answers, mishaps>>

\* ... and the row.
EnsureInserts ==
    /\ work.step = "offer"
    /\ offers' = [offers EXCEPT ![work.brief] = Append(@, "pending")]
    /\ NextChannel
    /\ UNCHANGED <<briefs, shown, sends, replies, quietNow, click, early, answers, mishaps>>

\* A commit of send raises: a 'failed' row, next to the 'sent' one if that was
\* committed.
SendRowFails ==
    /\ work.step \in {"row", "count", "offer"} /\ Mishap
    /\ InsertDelivery("failed") /\ NextChannel
    /\ UNCHANGED <<briefs, shown, offers, replies, quietNow, click, early, answers>>

\* A crash; and what is caught nowhere: a 'failed' row that fails, and for a
\* digest also its rendering and the 'skipped' row.  The channels behind get
\* nothing.
ComposerDies ==
    /\ work # AtRest /\ Mishap
    /\ work' = AtRest
    /\ UNCHANGED <<briefs, shown, sends, offers, replies, quietNow, click, whole, early, answers>>
-----------------------------------------------------------------------------
(* The user of the Telegram bot. *)

\* resolve_brief_id_by_channel_ref: the message is known by its 'sent' row.
Resolves(b) == \E n \in DOMAIN sends[<<b, "telegram">>] : sends[<<b, "telegram">>][n] = "sent"

Answering(b) ==
    /\ <<b, "telegram">> \in shown /\ Resolves(b)
    /\ answers[b] < MaxAnswers /\ answers' = [answers EXCEPT ![b] = @ + 1]
    /\ early' = IF work # AtRest /\ work.brief = b THEN early \cup {b} ELSE early

PendingOffers(b) == {n \in DOMAIN offers[b] : offers[b][n] = "pending"}

\* handle_callback: the newest pending row or a new one ...
Press(b) ==
    /\ briefs[b].mode = "event_alert" /\ click = Unpressed
    /\ Answering(b)
    /\ \/ \E n \in PendingOffers(b) :
             /\ \A m \in PendingOffers(b) : m <= n
             /\ click' = [brief |-> b, row |-> n]
             /\ UNCHANGED offers
       \/ /\ PendingOffers(b) = {}
          /\ click' = [brief |-> b, row |-> Len(offers[b]) + 1]
          /\ offers' = [offers EXCEPT ![b] = Append(@, "pending")]
    /\ UNCHANGED <<briefs, shown, sends, replies, quietNow, work, whole, mishaps>>

\* ... then its update.
PressUpdates ==
    /\ click # Unpressed
    /\ \E verdict \in {"accepted", "declined"} :
         offers' = [offers EXCEPT ![click.brief][click.row] = verdict]
    /\ click' = Unpressed
    /\ UNCHANGED <<briefs, shown, sends, replies, quietNow, work, whole, early, answers, mishaps>>

\* handle_message: a refine_brief row.
Reply(b) ==
    /\ Answering(b)
    /\ replies' = [replies EXCEPT ![b] = @ + 1]
    /\ UNCHANGED <<briefs, shown, sends, offers, quietNow, work, click, whole, mishaps>>

\* The action handler closes a row past its expires_at.
OfferLapses(b) ==
    /\ PendingOffers(b) # {}
    /\ offers' = [offers EXCEPT ![b] = [n \in DOMAIN @ |->
                     IF @[n] = "pending" THEN "expired" ELSE @[n]]]
    /\ UNCHANGED <<briefs, shown, sends, replies, quietNow, work, click, whole, early,
                   answers, mishaps>>

QuietFlips ==
    /\ quietNow' = ~quietNow
    /\ UNCHANGED <<briefs, shown, sends, offers, replies, work, click, whole, early,
                   answers, mishaps>>

Deliver == \/ Gate \/ RenderFails \/ SendImpl \/ SendFails \/ SentRow \/ EnsureCounts \/ EnsureInserts
           \/ SendRowFails

DeliveryNext ==
    \/ \E mode \in Modes : Compose(mode)
    \/ \E b \in DOMAIN briefs : ComposeRefinement(b) \/ Press(b) \/ Reply(b) \/ OfferLapses(b)
    \/ UpdateRefineMetadata \/ Deliver \/ ComposerDies \/ PressUpdates \/ QuietFlips

DeliverySpec == DeliveryInit /\ [][DeliveryNext]_deliveryVars
-----------------------------------------------------------------------------
SentRows(b, ch) == sends[<<b, ch>>]
Statuses(b, ch) == {SentRows(b, ch)[n] : n \in DOMAIN SentRows(b, ch)}

\* A brief that its mode delivers to a channel.
Due(b, ch) == briefs[b].mode # "refined" /\ ch \in GoesTo(briefs[b].mode)

\* A send that fails does not keep the other channels from their turn, and the
\* rows tell the truth: a brief delivered to its end has for every channel it
\* goes to (a digest: the enabled ones) one row, or two when a commit failed
\* after the message had gone out; 'sent' is never claimed of a message that
\* did not go out, and one that did is recorded as sent unless something
\* failed on its way.  Nothing is said of a digest whose loop broke off.
EveryChannelRecorded ==
    \A b \in whole, ch \in ChannelSet :
        Due(b, ch) =>
            /\ Len(SentRows(b, ch)) \in 1..2
            /\ Len(SentRows(b, ch)) = 2 => SentRows(b, ch) = <<"sent", "failed">>
            /\ "sent" \in Statuses(b, ch) => <<b, ch>> \in shown
            /\ <<b, ch>> \in shown => Statuses(b, ch) \cap {"sent", "failed"} # {}

\* An alert that reached somebody can lapse, and only once (the comment S-8 in
\* base.send): once it is delivered it has exactly one run_backtest row that
\* its delivery made, unless the user was faster than the channels or a step
\* failed; and no second row is ever waiting for an answer.
OneOfferEach ==
    \A b \in whole \ early :
        (briefs[b].mode = "event_alert" /\ \E ch \in ChannelSet : SentRows(b, ch) = <<"sent">>)
            => /\ Len(offers[b]) \in 1..(1 + answers[b])
               /\ Cardinality(PendingOffers(b)) <= 1

\* A chain of refinements stays within max_depth below the brief it started
\* from; each crash that kept a refined brief from its depth adds one such chain.
ChainIsCapped ==
    \A b \in DOMAIN briefs : briefs[b].chain <= MaxDepth * (1 + mishaps)
=============================================================================
