-------------------------------- MODULE Exchange --------------------------------
(***************************************************************************)
(* A client writes its history and asks; the answer is that of a native    *)
(* provider.  Conversation says what any provider is sent of the history,  *)
(* NativeStream what the client is given of the answer, Responses how a    *)
(* client of the Responses API is told of it.                              *)
(***************************************************************************)
EXTENDS NativeStream, Conversation

VARIABLE asked    \* the request is with the provider

exchange == <<vars, conversation, asked>>

ExchangeInit == Init /\ ~thinking /\ ~router /\ Blank /\ asked = FALSE

Prepare ==
    /\ ~asked /\ Write
    /\ UNCHANGED <<vars, asked>>

\* _stream_native of a provider: what it is asked for and who it is is decided with
\* the request; of the history the proxy keeps nothing.
Ask ==
    /\ ~asked /\ Ready
    /\ asked' = TRUE
    /\ thinking' \in BOOLEAN /\ router' \in BOOLEAN
    /\ client' = "messages" /\ history' = <<>> /\ cached' = {}
    /\ UNCHANGED <<phase, upstream, policy, tracker, held, committed, retries, sent, quirks>>

Answer ==
    /\ asked /\ Next
    /\ UNCHANGED <<conversation, asked>>

ExchangeNext == Prepare \/ Ask \/ Answer

ExchangeSpec == ExchangeInit /\ [][ExchangeNext]_exchange
==============================================================================
