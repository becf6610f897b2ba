----------------------------- MODULE MCLiveStream -----------------------------
(***************************************************************************)
(* The four hooks; the hooks of NATS and ActiveMQ have the same control.   *)
(* The page of MQTT watches an ordinary filter and the broker's own tree,  *)
(* and receives nothing: there the questions are about subscriptions.  The *)
(* others watch one filter, whose messages overrun the ring and the page.  *)
(***************************************************************************)
EXTENDS LiveStream

CONSTANT Ordinary   \* a filter that is not the broker's own tree

AllHooks == {useMqttStream, useNatsStream, useActiveMQStream, useMessageTail}

AllFilters == {Ordinary, SystemTree}

Picked == [h \in AllHooks |-> IF h.shared THEN AllFilters ELSE {Ordinary}]

Received == [h \in AllHooks |-> IF h.shared THEN 0 ELSE 3]
=============================================================================
