----------------------------- MODULE TopicMatch -----------------------------
(***************************************************************************)
(* Which subscriptions a message belongs to: the regular expression that   *)
(* topic_to_regex makes of a subscription's topic, and, as the reference,  *)
(* the rule of MQTT that decides what the broker sends.                    *)
(*                                                                         *)
(* A topic is a sequence of levels, the parts between the slashes.  In the *)
(* topic of a subscription, a filter, a level may be a wildcard.  Levels   *)
(* have none of the characters with a meaning in regular expressions,      *)
(* except those of Reserved, which begin with a dollar sign.               *)
(***************************************************************************)
EXTENDS Naturals, Sequences

CONSTANTS
    Names,      \* levels of topics, strings
    Reserved    \* those that begin with "$"

ASSUME NamesAssumption ==
    Reserved \subseteq Names /\ "+" \notin Names /\ "#" \notin Names

EndsInHash(filter) == filter # <<>> /\ filter[Len(filter)] = "#"

(* mosquitto_sub_topic_check: "#" only as the last level. *)
IsFilter(filter) ==
    /\ filter \in Seq(Names \cup {"+", "#"}) \ {<<>>}
    /\ \A i \in 1..Len(filter) : filter[i] = "#" => i = Len(filter)

IsTopic(topic) == topic \in Seq(Names) \ {<<>>}

-----------------------------------------------------------------------------
(* regex_match with topic_to_regex(filter)                                 *)

(* "+" becomes "[^/]*".  A dollar sign is not escaped: it matches the end. *)
RegexLevel(pattern, level) ==
    pattern = "+" \/ (pattern = level /\ pattern \notin Reserved)

(* Fault: "#" becomes an expression for one level. *)
HashIsOneLevel(filter, topic) ==
    /\ Len(topic) = Len(filter)
    /\ \A i \in 1..Len(filter) :
          filter[i] = "#" \/ RegexLevel(filter[i], topic[i])

(* "#" becomes an expression for one level and any number of others. *)
RegexMatches(filter, topic) ==
    IF EndsInHash(filter)
    THEN /\ Len(topic) >= Len(filter)
         /\ \A i \in 1..Len(filter) - 1 : RegexLevel(filter[i], topic[i])
    ELSE /\ Len(topic) = Len(filter)
         /\ \A i \in 1..Len(filter) : RegexLevel(filter[i], topic[i])

-----------------------------------------------------------------------------
(* mosquitto_topic_matches_sub                                             *)

(* A wildcard in front does not match a topic that begins with "$". *)
HiddenTopic(filter, topic) == topic[1] \in Reserved /\ filter[1] # topic[1]

(* "#" stands for any number of levels, also for none unless "+" precedes. *)
MqttMatches(filter, topic) ==
    LET fixed == IF EndsInHash(filter) THEN Len(filter) - 1 ELSE Len(filter)
    IN  /\ ~HiddenTopic(filter, topic)
        /\ \/ Len(topic) = fixed /\ (EndsInHash(filter) => filter[fixed] # "+")
           \/ Len(topic) > fixed /\ EndsInHash(filter)
        /\ \A i \in 1..fixed : filter[i] \in {"+", topic[i]}

-----------------------------------------------------------------------------
(* Where the two agree: not on a topic that is the parent of "#", which    *)
(* the broker sends and on_message ignores, and not on reserved levels.    *)
Ordinary(filter, topic) ==
    /\ EndsInHash(filter) => Len(topic) >= Len(filter)
    /\ \A i \in 1..Len(filter) : filter[i] \notin Reserved
    /\ topic[1] \notin Reserved
=============================================================================
