-------------------------------- MODULE Wire --------------------------------
(***************************************************************************)
(* The NIP-01 messages of relay_pool/message.rs between an agent and its   *)
(* relays, and the filters by which it asks for events.                    *)
(*                                                                         *)
(* A message is a JSON array: a sequence of values, each with its type.    *)
(* A filter is the record of the fields that are given; one that is None   *)
(* is left out, as its serialisation leaves it out.                        *)
(***************************************************************************)
EXTENDS Events

Json(type, val) == [type |-> type, val |-> val]
Text(val) == Json("string", val)

-----------------------------------------------------------------------------
\* ClientMessage::to_json of an EVENT, a REQ and a CLOSE.
event_json(event) == <<Text("EVENT"), Json("event", event)>>
req_json(sub, filters) ==
  <<Text("REQ"), Text(sub)>> \o [i \in DOMAIN filters |-> Json("filter", filters[i])]
close_json(sub) == <<Text("CLOSE"), Text(sub)>>

IsText(arr, i) == i \in DOMAIN arr /\ arr[i].type = "string"
TextOr(arr, i, default) == IF IsText(arr, i) THEN arr[i].val ELSE default

\* RelayMessage::from_json of an array.
from_json(arr) ==
  LET label == TextOr(arr, 1, None)
      sub == TextOr(arr, 2, None)
  IN  IF ~IsText(arr, 1) THEN Err("MissingLabel")
      ELSE IF label \notin {"EVENT", "OK", "EOSE", "CLOSED", "NOTICE"} THEN Err("UnknownLabel")
      ELSE IF label = "NOTICE" THEN Ok([is |-> label, message |-> TextOr(arr, 2, None)])
      ELSE IF ~IsText(arr, 2) THEN Err("MissingField")
      ELSE IF label = "EOSE" THEN Ok([is |-> label, sub |-> sub])
      ELSE IF label = "CLOSED" THEN Ok([is |-> label, sub |-> sub, message |-> TextOr(arr, 3, None)])
      ELSE IF label = "EVENT" /\ 3 \notin DOMAIN arr THEN Err("MissingField")
      ELSE IF label = "EVENT" /\ arr[3].type # "event" THEN Err("InvalidEvent")
      ELSE IF label = "EVENT" THEN Ok([is |-> label, sub |-> sub, event |-> arr[3].val])
      ELSE IF 3 \notin DOMAIN arr \/ arr[3].type # "bool" THEN Err("MissingField")
      ELSE Ok([is |-> label, event_id |-> sub, accepted |-> arr[3].val,
               message |-> TextOr(arr, 4, None)])

-----------------------------------------------------------------------------
(* The relay (external): NIP-01 asks that an event match every field that  *)
(* is given.                                                               *)

TagOf == [e_tags |-> "e", p_tags |-> "p", t_tags |-> "t",
          label_namespace_tags |-> "L", label_tags |-> "l"]

HasTag(event, key, values) ==
  \E i \in DOMAIN event.tags :
    LET raw == event.tags[i] IN Len(raw) >= 2 /\ raw[1] = key /\ raw[2] \in values

FieldMatches(field, wanted, event) ==
  CASE field = "ids"     -> event.id \in wanted
    [] field = "authors" -> event.pubkey \in wanted
    [] field = "kinds"   -> event.kind \in wanted
    [] field = "since"   -> event.created_at >= wanted
    [] field = "until"   -> event.created_at <= wanted
    [] field = "limit"   -> TRUE
    [] OTHER             -> HasTag(event, TagOf[field], wanted)

Matches(filter, event) ==
  \A field \in DOMAIN filter : FieldMatches(field, filter[field], event)

\* A relay that holds a REQ answers an EVENT that matches one of its filters
\* with the event, under the subscription's name.
Relayed(req, event) ==
  IF \E i \in 3..Len(req) : Matches(req[i].val, event[2].val)
  THEN <<Text("EVENT"), req[2], event[2]>> ELSE <<Text("EOSE"), req[2]>>

\* What a subscriber with these filters gets of a published event.
Received(filters, event) ==
  from_json(Relayed(req_json("sub", filters), event_json(event)))

Finds(filter, event) ==
  Gives(Received(<<filter>>, event), [is |-> "EVENT", sub |-> "sub", event |-> event])

=============================================================================
