----------------------------- MODULE FwBuffers -----------------------------
(***************************************************************************)
(* The way of a DMA buffer through the components of one interface of the  *)
(* firewall: driver, virtualisers (examples/firewall/net_components),      *)
(* filter, ARP responder, ICMP module, router and webserver.  A buffer is  *)
(* always in one queue, in a ring of the device or kept by a component.    *)
(* Every component is a handler that drains its input queues one after     *)
(* the other and then tells the readers of the queues it wrote to.  Over   *)
(* the queues of sDDF the reader asks for a notification when it found its *)
(* queue empty, and looks again; over the firewall's own queues            *)
(* (include/lions/firewall/queue.h) the writer always notifies.            *)
(*                                                                         *)
(* Handlers of different components interleave at every queue operation.   *)
(* Which way a packet takes is any that the component knows.  A queue is   *)
(* between two components, so a behaviour looks at a few components in     *)
(* detail; some others pass a buffer on in one step and are always ready.  *)
(* Driver and device are external, the driver one more handler.            *)
(***************************************************************************)
EXTENDS Integers, Sequences, Functions, FiniteSetsExt

CONSTANTS
    RxBuffers,          \* receive buffers of the interface
    ReplyBuffers,       \* transmit buffers of the ARP responder
    IcmpBuffers,        \* transmit buffers of the ICMP module
    Systems             \* the sets of components to look at, and of those that pass on

Buffers == RxBuffers \cup ReplyBuffers \cup IcmpBuffers
Components ==
    {"driver", "virtRx", "filter", "responder", "router", "webserver", "virtTx", "icmp"}

ASSUME FwBuffersAssumption ==
    \A s \in Systems : s.detail \cup s.passing \subseteq Components /\ s.detail \cap s.passing = {}

-----------------------------------------------------------------------------
(* Queues and handlers.                                                    *)

\* The component that takes buffers out of a queue.
Reader == [
    rxActive |-> "virtRx", filterFree |-> "virtRx", responderFree |-> "virtRx",
    routerFree |-> "virtRx", webFree |-> "virtRx", sent |-> "virtRx",
    filterActive |-> "filter", responderActive |-> "responder",
    routed |-> "router", answered |-> "router", web |-> "webserver",
    txFree |-> "virtTx", replyActive |-> "virtTx", icmpActive |-> "virtTx", send |-> "virtTx",
    replyFree |-> "responder", icmpFree |-> "icmp",
    rxFree |-> "driver", txActive |-> "driver"]

\* The component that puts buffers into a queue.
Writer == [
    rxActive |-> "driver", filterFree |-> "filter", responderFree |-> "responder",
    routerFree |-> "router", webFree |-> "webserver", sent |-> "virtTx",
    filterActive |-> "virtRx", responderActive |-> "virtRx",
    routed |-> "filter", answered |-> "router", web |-> "router",
    txFree |-> "driver", replyActive |-> "responder", icmpActive |-> "icmp", send |-> "router",
    replyFree |-> "virtTx", icmpFree |-> "virtTx",
    rxFree |-> "virtRx", txActive |-> "virtTx"]

Queues == DOMAIN Reader
\* Places where a buffer stays until something else happens.
Kept == {"rxRing", "txRing", "waiting", "held"}

\* The queues of sDDF.
NetQueues ==
    {"rxActive", "rxFree", "filterActive", "filterFree", "responderActive", "responderFree",
     "replyActive", "replyFree", "icmpActive", "icmpFree", "txActive", "txFree"}

\* Steps of a handler: empty a queue into others, tell the readers of queues
\* that were written to, at any rate or if they listen.
Telling == {"tell", "tell if listening", "tell last"}
Drain(q, to) == [do |-> "drain", of |-> q, to |-> to]
Tell(q) == [do |-> "tell", of |-> q]
TellIfAsked(q) == [do |-> "tell if listening", of |-> q]
\* Tell by a deferred notification, of which Microkit sends the last of a handler.
TellLast(q) == [do |-> "tell last", of |-> q]
\* Neither: what the component does for itself.
Work == [do |-> "work"]

VirtRx == <<
    Drain("rxActive", {"filterActive", "responderActive", "rxFree"}),
    TellIfAsked("filterActive"), TellIfAsked("responderActive"),
    Drain("filterFree", {"rxFree"}), Drain("responderFree", {"rxFree"}),
    Drain("routerFree", {"rxFree"}), Drain("webFree", {"rxFree"}), Drain("sent", {"rxFree"}),
    TellIfAsked("rxFree") >>

Filter == <<
    Drain("filterActive", {"routed", "filterFree"}),
    Tell("routed"), Tell("filterFree") >>

Responder == <<
    Drain("responderActive", {"responderFree"}),
    TellIfAsked("responderFree"), TellIfAsked("replyActive") >>

Route == <<
    Drain("routed", {"routerFree", "web", "waiting", "send"}),
    Tell("send"), Tell("routerFree"), Tell("web") >>

\* The same after process_arp_waiting.
RouteAnswered == <<Drain("answered", {"send", "routerFree"})>> \o Route

VirtTx == <<
    Drain("txFree", {"replyFree", "icmpFree", "sent"}),
    TellIfAsked("replyFree"), TellIfAsked("icmpFree"), Tell("sent"),
    Drain("replyActive", {"txActive"}), Drain("icmpActive", {"txActive"}),
    Drain("send", {"txActive"}),
    TellIfAsked("txActive") >>

\* process_rx takes packets, the program reads them, handle_notify tells.
Webserver == <<Drain("web", {"held", "webFree"}), Work, Tell("webFree")>>

\* The ICMP module then defers a notification for each interface it sent to.
Icmp == <<Work, TellLast("icmpActive")>>

Driver == <<Drain("rxFree", {"rxRing"}), Drain("txActive", {"txRing"})>>

\* Channels that notify a component; the router is notified by two.
Channels == Components \cup {"arp"}
Owner(c) == IF c = "arp" THEN "router" ELSE c

Script == [
    virtRx |-> VirtRx, virtTx |-> VirtTx, filter |-> Filter, responder |-> Responder,
    router |-> Route, arp |-> RouteAnswered, webserver |-> Webserver, icmp |-> Icmp,
    driver |-> Driver]

VARIABLES
    system,     \* the components looked at in detail, and those that pass buffers on
    at,         \* the queue or place of each buffer
    listening,      \* queues of sDDF whose reader asked for a notification
    signalled,       \* channels with a notification pending
    running,    \* the channel that each component handles, or "none"
    step,       \* its step in the script
    phase,      \* in a drain: "take", "ask" after the queue was empty, "look"
    written,    \* queues that it wrote to and has not signalled the reader about
    overwritten \* queues whose notification another one replaced, until their reader wakes

handlers == <<running, step, phase, written>>
bufferVars == <<system, overwritten, at, listening, signalled, handlers>>

In(q) == {b \in Buffers : at[b] = q}
Used(q) == {Reader[q], Writer[q]} \subseteq system.detail \cup system.passing
At(p) == Script[running[p]][step[p]]

BuffersInit ==
    /\ system \in Systems
    /\ at = [b \in Buffers |->
        IF b \in RxBuffers THEN "rxRing" ELSE IF b \in ReplyBuffers THEN "replyFree" ELSE "icmpFree"]
    /\ listening = NetQueues
    /\ signalled = {}
    /\ running = [p \in Components |-> "none"]
    /\ step = [p \in Components |-> 1]
    /\ phase = [p \in Components |-> "take"]
    /\ written = [p \in Components |-> {}]
    /\ overwritten = {}

-----------------------------------------------------------------------------
(* A component.                                                            *)

\* The next step of the handler for c that can do anything, or its end: other
\* steps touch queues that are not used, or that nothing was written to.
Matters(c, i, wrote) ==
    LET s == Script[c][i] IN
    CASE s.do = "work"  -> TRUE
      [] s.do = "drain" -> Used(s.of)
      [] OTHER          -> s.of \in wrote

GoOn(p, c, from, wrote) ==
    LET ahead == {i \in from .. Len(Script[c]) : Matters(c, i, wrote)}
    IN  /\ step' = [step EXCEPT ![p] = IF ahead = {} THEN 1 ELSE Min(ahead)]
        /\ running' = [running EXCEPT ![p] = IF ahead = {} THEN "none" ELSE c]
        /\ phase' = [phase EXCEPT ![p] = "take"]

NextStep(p, wrote) == GoOn(p, running[p], step[p] + 1, wrote)

\* notified().
Wake(c) ==
    /\ c \in signalled /\ running[Owner(c)] = "none"
    /\ signalled' = signalled \ {c}
    /\ GoOn(Owner(c), c, 1, written[Owner(c)])
    /\ overwritten' = {q \in overwritten : Reader[q] # c}
    /\ UNCHANGED <<system, at, listening, written>>

\* Where a queue leads for a buffer: a transmitted one goes back to its owner.
Leads(b, q) ==
    /\ q \in Queues => Used(q)
    /\ q = "replyFree" => b \in ReplyBuffers
    /\ q = "icmpFree" => b \in IcmpBuffers
    /\ q = "sent" => b \in RxBuffers

Working(p) == running[p] # "none" /\ At(p).do = "work"
Draining(p, ph) == running[p] # "none" /\ At(p).do = "drain" /\ phase[p] = ph

\* Dequeue a buffer and enqueue it elsewhere, or keep it.
Pass(p) ==
    /\ Draining(p, "take")
    /\ \E b \in In(At(p).of), q \in At(p).to :
        /\ Leads(b, q)
        /\ at' = [at EXCEPT ![b] = q]
        /\ written' = [written EXCEPT ![p] = @ \cup ({q} \cap Queues)]
    /\ UNCHANGED <<system, overwritten, listening, signalled, running, step, phase>>

\* The responder replies to a request if it has a free buffer.
Reply(b, r) ==
    /\ Draining("responder", "take") /\ at[b] = "responderActive"
    /\ at[r] = "replyFree" /\ Used("replyActive")
    /\ at' = [at EXCEPT ![b] = "responderFree", ![r] = "replyActive"]
    /\ written' = [written EXCEPT !["responder"] = @ \cup {"responderFree", "replyActive"}]
    /\ UNCHANGED <<system, overwritten, listening, signalled, running, step, phase>>

\* The webserver reads a packet to its end, between mpfirewall_process_rx and
\* mpfirewall_handle_notify.
Free(b) ==
    /\ Working("webserver")
    /\ at[b] = "held"
    /\ at' = [at EXCEPT ![b] = "webFree"]
    /\ written' = [written EXCEPT !["webserver"] = @ \cup {"webFree"}]
    /\ UNCHANGED <<system, overwritten, listening, signalled, running, step, phase>>

\* A request to the ICMP module, for which it has a free buffer.
Generate(b) ==
    /\ Working("icmp")
    /\ at[b] = "icmpFree"
    /\ at' = [at EXCEPT ![b] = "icmpActive"]
    /\ written' = [written EXCEPT !["icmp"] = @ \cup {"icmpActive"}]
    /\ UNCHANGED <<system, overwritten, listening, signalled, running, step, phase>>

WorkDone(p) ==
    /\ Working(p)
    /\ NextStep(p, written[p])
    /\ UNCHANGED <<system, overwritten, at, listening, signalled, written>>

\* The queue is empty.
FoundEmpty(p) ==
    /\ Draining(p, "take") /\ In(At(p).of) = {}
    /\ IF At(p).of \in NetQueues
       THEN phase' = [phase EXCEPT ![p] = "ask"] /\ UNCHANGED <<running, step>>
       ELSE NextStep(p, written[p])
    /\ UNCHANGED <<system, overwritten, at, listening, signalled, written>>

\* net_request_signal.
Ask(p) ==
    /\ Draining(p, "ask")
    /\ listening' = listening \cup {At(p).of}
    /\ phase' = [phase EXCEPT ![p] = "look"]
    /\ UNCHANGED <<system, overwritten, at, signalled, running, step, written>>

\* Seeded fault: the queue is not looked at again.
LookAgainNot(p) ==
    /\ Draining(p, "look")
    /\ NextStep(p, written[p])
    /\ UNCHANGED <<system, overwritten, at, listening, signalled, written>>

\* The queue is looked at once more, in case the writer looked for the request
\* before it was there.
LookAgain(p) ==
    /\ Draining(p, "look")
    /\ IF In(At(p).of) = {} THEN NextStep(p, written[p]) /\ UNCHANGED listening
       ELSE /\ listening' = listening \ {At(p).of}
            /\ phase' = [phase EXCEPT ![p] = "take"]
            /\ UNCHANGED <<running, step>>
    /\ UNCHANGED <<system, overwritten, at, signalled, written>>

\* Tell the reader of a queue about what was written.  A notification that was
\* not asked for stays due: virt_rx keeps its flag, and for the others the reader
\* is still draining.
TellReader(p) ==
    /\ running[p] # "none" /\ At(p).do \in Telling
    /\ LET q == At(p).of
           sends == q \in written[p] /\ (At(p).do # "tell if listening" \/ q \in listening)
       IN  /\ signalled' = IF sends THEN signalled \cup ({Reader[q]} \cap system.detail) ELSE signalled
           /\ listening' = IF sends /\ At(p).do = "tell if listening" /\ Reader[q] \in system.detail
                       THEN listening \ {q} ELSE listening
           /\ written' = [written EXCEPT ![p] = IF q = "rxFree" /\ ~sends THEN @ ELSE @ \ {q}]
    /\ NextStep(p, written'[p])
    /\ UNCHANGED <<system, overwritten, at>>

\* The handler has sent to a later interface as well, and the notification that
\* it defers for that one replaces the one for this interface.
Overwrite(p) ==
    /\ running[p] # "none" /\ At(p).do = "tell last"
    /\ overwritten' = overwritten \cup {At(p).of}
    /\ written' = [written EXCEPT ![p] = @ \ {At(p).of}]
    /\ NextStep(p, written'[p])
    /\ UNCHANGED <<system, at, listening, signalled>>

-----------------------------------------------------------------------------
(* What comes from outside.                                                *)

\* Put b into q and tell the reader.
Hand(b, q) ==
    /\ at' = [at EXCEPT ![b] = q]
    /\ IF q \in Queues /\ Reader[q] \in system.detail /\ (q \in NetQueues => q \in listening)
       THEN signalled' = signalled \cup {Reader[q]} /\ listening' = listening \ {q}
       ELSE UNCHANGED <<signalled, listening>>
    /\ UNCHANGED <<system, overwritten, handlers>>

\* Where the reader of a queue puts what it finds there.
Targets == [q \in Queues |->
    UNION {s.to : s \in {t \in UNION {Range(Script[c]) : c \in Channels} :
                            t.do = "drain" /\ t.of = q}}]

\* A component that is not looked at in detail passes a buffer on.
PassElsewhere(b) ==
    /\ at[b] \in Queues /\ Reader[at[b]] \in system.passing
    /\ \E q \in Targets[at[b]] : Leads(b, q) /\ Hand(b, q)

\* The same for what such a component sends or gives back of its own accord.
SendElsewhere(b, p, from, to) == p \in system.passing /\ at[b] = from /\ Hand(b, to)

\* The ICMP module among them sends, and its notification is overwritten.
SendUntold(b) ==
    /\ "icmp" \in system.passing /\ at[b] = "icmpFree"
    /\ at' = [at EXCEPT ![b] = "icmpActive"]
    /\ overwritten' = overwritten \cup {"icmpActive"}
    /\ UNCHANGED <<system, listening, signalled, handlers>>

\* The device has received into a buffer, or sent one: the driver hands it on.
DeviceDone(b) ==
    \/ at[b] = "rxRing" /\ Used("rxActive") /\ Hand(b, "rxActive")
    \/ at[b] = "txRing" /\ Used("txFree") /\ Hand(b, "txFree")

\* The address a packet waits for is known, or is found not to exist.
Answer(b) ==
    /\ at[b] = "waiting"
    /\ at' = [at EXCEPT ![b] = "answered"]
    /\ signalled' = signalled \cup ({"arp"} \cap {c \in Channels : Owner(c) \in system.detail})
    /\ UNCHANGED <<system, overwritten, listening, handlers>>

\* Other notifications of the webserver, and of the ICMP module by the router.
Stir(p) ==
    /\ p \in {"webserver", "icmp"} \cap system.detail
    /\ \E b \in Buffers : at[b] \in {"held", "icmpFree"} /\ (at[b] = "held" <=> p = "webserver")
    /\ signalled' = signalled \cup {p}
    /\ UNCHANGED <<system, overwritten, at, listening, handlers>>

BuffersNext ==
    \/ \E c \in Channels : Wake(c)
    \/ \E p \in Components :
        \/ Pass(p) \/ FoundEmpty(p) \/ WorkDone(p) \/ Ask(p) \/ LookAgain(p) \/ TellReader(p)
        \/ Overwrite(p) \/ Stir(p)
    \/ \E b \in RxBuffers, r \in ReplyBuffers : Reply(b, r)
    \/ \E b \in Buffers :
        \/ SendElsewhere(b, "responder", "replyFree", "replyActive")
        \/ SendElsewhere(b, "icmp", "icmpFree", "icmpActive")
        \/ SendElsewhere(b, "webserver", "held", "webFree")
        \/ SendUntold(b)
    \/ \E b \in Buffers : PassElsewhere(b) \/ Free(b) \/ Generate(b) \/ DeviceDone(b) \/ Answer(b)

BuffersSpec == BuffersInit /\ [][BuffersNext]_bufferVars

-----------------------------------------------------------------------------

\* The reader of q will come to it: it is notified, or handles a notification
\* and has q before it.
WillRead(q) ==
    \/ Reader[q] \notin system.detail \/ Reader[q] \in signalled
    \/ q = "answered" /\ "arp" \in signalled
    \/ LET p == Reader[q] IN
       /\ running[p] # "none"
       /\ \E i \in step[p] .. Len(Script[running[p]]) :
            Script[running[p]][i].do = "drain" /\ Script[running[p]][i].of = q

\* A writer has yet to tell the reader, who will listen.
WillBeTold(q) ==
    \E p \in Components :
        /\ running[p] # "none" /\ q \in written[p]
        /\ \E i \in step[p] .. Len(Script[running[p]]) :
            /\ Script[running[p]][i].do \in Telling
            /\ Script[running[p]][i].of = q
            /\ Script[running[p]][i].do = "tell if listening" => q \in listening

\* No buffer is stranded: whenever a queue holds one, its reader is notified or
\* will come to the queue in the handler it is in, or a writer has still to
\* notify it.  The free queues of components that only send are read when
\* something is to be sent.  One buffer is left in the code: that of the ICMP
\* module whose deferred notification a later interface's replaced, which stays
\* in its queue until something else wakes the transmit virtualiser.
NothingStranded ==
    \A q \in Queues \ {"replyFree", "icmpFree"} :
        In(q) # {} => WillRead(q) \/ WillBeTold(q) \/ (q = "icmpActive" /\ q \in overwritten)
=============================================================================
