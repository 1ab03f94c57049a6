------------------------------ MODULE WebSide ------------------------------
(***************************************************************************)
(* The web side of the program: event streams, notifications and the       *)
(* classifier, one event loop with one blocklist.  A step of the program   *)
(* is a step of one of them; a kickban is one for the streams and the      *)
(* notifications alike.                                                    *)
(***************************************************************************)
EXTENDS EventStream, WebPush, Classifier

webVars == <<streamVars, pushVars, ruleVars>>

WebInit == StreamInit /\ PushInit /\ RuleInit

\* blocklist_decision and is_sender_blocked ask the same set.
StreamStep == StreamNext /\ blocked' = blocked \cup (banned' \ banned)
                         /\ UNCHANGED <<world, subs, memory, history, ruleVars>>

PushStep ==
    /\ PushNext
    /\ banned' = banned \cap blocked'
    /\ announcing' = (announcing \/ banned' # banned)
    /\ UNCHANGED <<scene, messages, inbound, cursor, posts, client, stopping, ruleVars>>

RuleStep == RuleNext /\ UNCHANGED <<streamVars, pushVars>>

WebNext == StreamStep \/ PushStep \/ RuleStep

WebSpec == WebInit /\ [][WebNext]_webVars /\ RuleFairness
=============================================================================
