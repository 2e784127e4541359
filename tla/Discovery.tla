----------------------------- MODULE Discovery -----------------------------
(***************************************************************************)
(* The directory of agents of agent_discovery.rs, and the profiles of      *)
(* agent_profile.rs.  Hello and bye are broadcast, so they arrive in any   *)
(* order and more than once; process_event looks at neither the signature  *)
(* nor the time of an event.                                               *)
(***************************************************************************)
EXTENDS Wire

CONSTANT Cutoffs    \* the cutoffs given to evict_stale

VARIABLES
  agents,    \* the registry: entries by public key
  latest     \* history: the last hello or bye processed of each author,
             \* <<>> after an eviction or a removal by hand

discoveryVars == <<agents, latest>>

TAG_AGENT_TYPE == "agent-type"
TAG_CAPABILITY == "capability"

RawTag(key, value) == [variant |-> "Unknown", args |-> <<key, value>>]

build_hello(agentType, capabilities) ==
  build([Message("hello") EXCEPT
           !.extra_tags = <<RawTag(TAG_AGENT_TYPE, agentType)>>
             \o [i \in DOMAIN capabilities |-> RawTag(TAG_CAPABILITY, capabilities[i])]])

build_bye == build(Message("bye"))

\* The performative is no single-letter tag: relays cannot filter by it.
discovery_filter == [kinds |-> {KIND_AGENT_MESSAGE}]

Valued(raw, key) == Len(raw) >= 2 /\ raw[1] = key

\* unwrap_or_default of a missing value is the empty string.
extract_tag_value(tags, key) ==
  LET found == Filtered(tags, LAMBDA raw : Valued(raw, key))
  IN  IF found = <<>> THEN None ELSE found[1][2]

extract_all_tag_values(tags, key) ==
  LET found == Filtered(tags, LAMBDA raw : Valued(raw, key))
  IN  [i \in DOMAIN found |-> found[i][2]]

AgentEntry(event) ==
  [pubkey |-> event.pubkey,
   agent_type |-> extract_tag_value(event.tags, TAG_AGENT_TYPE),
   capabilities |-> extract_all_tag_values(event.tags, TAG_CAPABILITY),
   last_seen |-> event.created_at]

Listed == DOMAIN agents

DiscoveryInit ==
  /\ agents = [k \in {} |-> AgentEntry(Unsigned(0, <<>>, <<>>))]
  /\ latest = [k \in Keys |-> <<>>]

-----------------------------------------------------------------------------
Without(keys) == [k \in Listed \ keys |-> agents[k]]

\* process_event: the outcome, and its effect, none when it is an error.
DiscoveryOutcome(event) ==
  LET verb == FindTag(event, "Performative")
  IN  IF event.kind # KIND_AGENT_MESSAGE THEN Err("WrongKind")
      ELSE IF Tagged(event, "Performative") = {} THEN Err("MissingPerformative")
      ELSE IF verb \notin {"hello", "bye"} THEN Err("NotDiscovery")
      ELSE Ok(verb)

\* Mutant: who is listed already keeps the first entry.
FirstHelloWins(event) ==
  LET outcome == DiscoveryOutcome(event)
  IN  IF ~outcome.ok THEN UNCHANGED discoveryVars
      ELSE /\ agents' = IF outcome.val = "hello"
                        THEN [k \in Listed \union {event.pubkey} |->
                                IF k \in Listed THEN agents[k] ELSE AgentEntry(event)]
                        ELSE Without({event.pubkey})
           /\ latest' = [latest EXCEPT ![event.pubkey] = <<event>>]

process_event(event) ==
  LET outcome == DiscoveryOutcome(event)
  IN  IF ~outcome.ok THEN UNCHANGED discoveryVars
      ELSE /\ agents' = IF outcome.val = "hello"
                        THEN [k \in Listed \union {event.pubkey} |->
                                IF k = event.pubkey THEN AgentEntry(event) ELSE agents[k]]
                        ELSE Without({event.pubkey})
           /\ latest' = [latest EXCEPT ![event.pubkey] = <<event>>]

Drop(keys) ==
  /\ agents' = Without(keys)
  /\ latest' = [k \in DOMAIN latest |-> IF k \in keys THEN <<>> ELSE latest[k]]

evict_stale(cutoff) == Drop({k \in Listed : agents[k].last_seen < cutoff})

remove_agent(key) == key \in Listed /\ Drop({key})

DiscoveryCall(key) ==
  \/ \E cutoff \in Cutoffs : evict_stale(cutoff)
  \/ remove_agent(key)

-----------------------------------------------------------------------------
\* The directory says what the last announcement processed said: who is
\* listed said hello last, with exactly that entry; who said bye last, or was
\* evicted, is not listed.  (It does not say what the newest announcement
\* said: an old hello that arrives late wins.)
DirectoryIsLatest ==
  \A k \in DOMAIN latest :
    IF k \in Listed
    THEN /\ latest[k] # <<>>
         /\ FindTag(latest[k][1], "Performative") = "hello"
         /\ agents[k] = AgentEntry(latest[k][1])
    ELSE latest[k] # <<>> => FindTag(latest[k][1], "Performative") = "bye"

-----------------------------------------------------------------------------
(* Profiles.  A profile has three optional fields and others; its JSON is  *)
(* the sequence of its members, the other fields after the three.          *)

KIND_METADATA == 0
ProfileFields == <<"name", "about", "picture">>
IsField(key) == \E i \in DOMAIN ProfileFields : ProfileFields[i] = key

\* extra is a sequence of members with distinct keys, as a map is written.
EmptyProfile == [name |-> None, about |-> None, picture |-> None, extra |-> <<>>]

profile_filter == [kinds |-> {KIND_METADATA}]
profile_filter_by_pubkeys(keys) == [kinds |-> {KIND_METADATA}, authors |-> keys]

field(profile, key, value) ==
  [profile EXCEPT
     !.extra = Append(Filtered(@, LAMBDA member : member[1] # key), <<key, value>>)]

ProfileJson(profile) ==
  Filtered([i \in 1..3 |-> <<ProfileFields[i], profile[ProfileFields[i]]>>],
            LAMBDA member : member[2] # None)
    \o profile.extra

build_profile(profile) ==
  Unsigned(KIND_METADATA, <<>>, [form |-> "json", members |-> ProfileJson(profile)])

\* A member of one of the three names fills that field, a second one is an
\* error; any other member is extra.
FieldOf(members, key) ==
  LET found == Filtered(members, LAMBDA member : member[1] = key)
  IN  IF found = <<>> THEN None ELSE found[1][2]

parse_profile_event(event) ==
  LET members == event.content.members
  IN  IF event.kind # KIND_METADATA THEN Err("WrongKind")
      ELSE IF event.content.form # "json" THEN Err("InvalidJson")
      ELSE IF \E i, j \in DOMAIN members :
                i # j /\ members[i][1] = members[j][1] /\ IsField(members[i][1])
      THEN Err("InvalidJson")
      ELSE
        Ok([name |-> FieldOf(members, "name"), about |-> FieldOf(members, "about"),
            picture |-> FieldOf(members, "picture"),
            extra |-> Filtered(members, LAMBDA member : ~IsField(member[1]))])

=============================================================================
