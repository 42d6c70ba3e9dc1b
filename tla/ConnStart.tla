----------------------------- MODULE ConnStart ------------------------------
(***************************************************************************)
(* Conn.start: the state functions that negotiate TLS, SASL and AMQP, one  *)
(* after another, and the interruptor goroutine that closes the network    *)
(* connection when the context of Dial ends first.                         *)
(*                                                                         *)
(* A state function is one of the values of start.at; a function that      *)
(* writes and then reads has one for the write and one for the read.  The  *)
(* peer's answer is chosen when it is read.                                *)
(***************************************************************************)
EXTENDS Integers, Sequences

CONSTANTS
    Configs,        \* configurations: [tls, sasl (the handlers), cancellable]
    Offers,         \* the peer's SASL mechanisms, in its order
    PeerChannelMax  \* the values of channel-max in the peer's open

ASSUME StartAssumption == PeerChannelMax \subseteq Nat

VARIABLES
    conf,           \* the configuration of the connection
    start,          \* the state of start and startImpl
    interruptor,    \* the interruptor goroutine: "none", "waiting", "ctxErr" or "nil"
    ctx,            \* the context of Dial: "live" or "ended"
    net,            \* c.net: "open" or "closed"
    closeOnce       \* whether c.closeOnce has been used

startVars == << conf, start, interruptor, ctx, net, closeOnce >>

StartInit ==
    /\ conf \in Configs
    /\ start = [at |-> "negotiateProto", proto |-> "none", mech |-> "none",
                tlsComplete |-> FALSE, saslComplete |-> FALSE, challenged |-> FALSE,
                channelMax |-> 0, result |-> "none"]
    /\ interruptor = IF conf.cancellable THEN "waiting" ELSE "none"
    /\ ctx = "live"
    /\ net = "open"
    /\ closeOnce = FALSE

-----------------------------------------------------------------------------

At(state) == start.at = state /\ net = "open"

Step(s) == start' = s /\ UNCHANGED << conf, interruptor, ctx, net, closeOnce >>

\* negotiateProto: in the order in which each must be negotiated.
NextProto ==
    IF conf.tls /\ ~start.tlsComplete THEN "tls"
    ELSE IF conf.sasl # {} /\ ~start.saslComplete THEN "sasl"
    ELSE "amqp"

\* negotiateProto, and exchangeProtoHeader as far as it writes.
negotiateProto ==
    /\ At("negotiateProto")
    /\ Step([start EXCEPT !.at = "exchangeProtoHeader", !.proto = NextProto])

\* The peer's header is the one that was sent: on to the state of its protocol.
exchangeProtoHeader ==
    /\ At("exchangeProtoHeader")
    /\ Step([start EXCEPT !.at = CASE start.proto = "amqp" -> "openAMQP"
                                   [] start.proto = "tls"  -> "startTLS"
                                   [] start.proto = "sasl" -> "negotiateSASL"])

startTLS ==
    /\ At("startTLS")
    /\ Step([start EXCEPT !.at = "negotiateProto", !.tlsComplete = TRUE])

\* The first mechanism of the peer's that has a handler.
negotiateSASL ==
    /\ At("negotiateSASL")
    /\ \E offer \in Offers : \E i \in DOMAIN offer :
          /\ offer[i] \in conf.sasl
          /\ \A j \in 1..(i - 1) : offer[j] \notin conf.sasl
          /\ Step([start EXCEPT !.at = "saslInit", !.mech = offer[i]])

\* The handler of the mechanism writes its sasl-init.
saslInit ==
    /\ At("saslInit") /\ ctx = "live"
    /\ Step([start EXCEPT !.at = IF start.mech = "XOAUTH2" THEN "step" ELSE "saslOutcome"])

\* The peer's outcome is ok.
saslOutcome ==
    /\ At("saslOutcome") \/ At("step")
    /\ Step([start EXCEPT !.at = "negotiateProto", !.saslComplete = TRUE])

\* XOAUTH2: one challenge is answered, with an empty response.
challenge ==
    /\ At("step") /\ ~start.challenged /\ ctx = "live"
    /\ Step([start EXCEPT !.challenged = TRUE])

openAMQP ==
    /\ At("openAMQP") /\ ctx = "live"
    /\ Step([start EXCEPT !.at = "opening"])

Lesser(a, b) == IF a < b THEN a ELSE b

\* The peer's open: its channel-max lowers ours.
opened(ours) ==
    /\ At("opening")
    /\ \E theirs \in PeerChannelMax :
          Step([start EXCEPT !.at = "established", !.channelMax = Lesser(theirs, ours)])

\* closeDuringStart, of startImpl and of the interruptor.
closeDuringStart ==
    /\ net' = IF closeOnce THEN net ELSE "closed"
    /\ closeOnce' = TRUE

\* Every error return of the state functions: the network fails or has been
\* closed, the peer's answer is not the one expected, the context has ended
\* before a write.  startImpl closes the connection.
StartFails ==
    /\ start.at \notin {"established", "failed"} /\ start.result = "none"
    /\ start' = [start EXCEPT !.at = "failed"]
    /\ closeDuringStart
    /\ UNCHANGED << conf, interruptor, ctx >>

-----------------------------------------------------------------------------
(* The interruptor *)

ContextEnds ==
    /\ conf.cancellable /\ ctx = "live" /\ start.result = "none"
    /\ ctx' = "ended"
    /\ UNCHANGED << conf, start, interruptor, net, closeOnce >>

\* Mutant of Interrupts: the context error is sent, the connection left open.
InterruptsWithoutClosing ==
    /\ interruptor = "waiting" /\ ctx = "ended"
    /\ interruptor' = "ctxErr"
    /\ UNCHANGED << conf, start, ctx, net, closeOnce >>

Interrupts ==
    /\ interruptor = "waiting" /\ ctx = "ended"
    /\ interruptor' = "ctxErr"
    /\ closeDuringStart
    /\ UNCHANGED << conf, start, ctx >>

\* startImpl has returned and done has been closed.
InterruptorStops ==
    /\ interruptor = "waiting" /\ start.at \in {"established", "failed"}
    /\ interruptor' = "nil"
    /\ UNCHANGED << conf, start, ctx, net, closeOnce >>

\* Mutant of Started: the deferred functions run in the other order.
StartedRegardless ==
    start.at = "established"

\* Whether start returns nil, and with it starts connReader and connWriter:
\* the interruptor's answer comes first.
Started ==
    start.at = "established" /\ interruptor # "ctxErr"

StartReturns ==
    /\ start.at \in {"established", "failed"} /\ start.result = "none"
    /\ interruptor # "waiting"
    /\ Step([start EXCEPT !.result = IF Started THEN "ok" ELSE "error"])

StartNext(ours) ==
    \/ negotiateProto \/ exchangeProtoHeader \/ startTLS \/ negotiateSASL \/ saslInit
    \/ saslOutcome \/ challenge \/ openAMQP \/ opened(ours)
    \/ StartFails \/ ContextEnds \/ Interrupts \/ InterruptorStops \/ StartReturns

\* A read or write on a closed connection returns, and the goroutines run.
StartFairness ==
    /\ WF_startVars(net = "closed" /\ StartFails)
    /\ WF_startVars(Interrupts \/ InterruptorStops)
    /\ WF_startVars(StartReturns)

-----------------------------------------------------------------------------
(* Properties *)

\* A call of Dial whose context has ended returns, whatever the peer does.
DialReturns ==
    ctx = "ended" ~> start.result # "none"
=============================================================================
