------------------------------ MODULE MessageHandlers ------------------------------
(***************************************************************************)
(* The message event: for every new message one task runs the conversion   *)
(* of its Vocaroo links and the filter of its images side by side (join!)  *)
(* and ends with the later of the two.  Many tasks run at once, and the    *)
(* commands of both components are tasks of their own.                     *)
(***************************************************************************)
EXTENDS ImageFilter, Vocaroo

vars == <<present, filterVars, vocarooVars>>

TypeOK == ChannelTypeOK /\ FilterTypeOK /\ VocarooTypeOK

Init == ChannelInit /\ FilterInit /\ VocarooInit

\* A message comes, and both its handlers begin.
Message(m) ==
    /\ Receive(m) /\ ReceiveLinks(m)
    /\ present' = present \cup {m}

Filter(m) == Scan(m) /\ UNCHANGED vocarooVars

Conversion(m) == Convert(m) /\ UNCHANGED filterVars

\* One of a message's two handlers waits for an answer that never comes; the other goes on.
Lost(m) ==
    \/ NoAnswer(m) /\ UNCHANGED vocarooVars
    \/ Silence(m) /\ UNCHANGED filterVars

Command ==
    \/ FilterCommand /\ UNCHANGED vocarooVars
    \/ VocarooCommand /\ UNCHANGED filterVars

Next ==
    \/ \E m \in Messages : Message(m) \/ Filter(m) \/ Conversion(m) \/ Lost(m)
    \/ Command
    \/ \E m \in Messages \ Posted : Withdraw(m) /\ UNCHANGED <<filterVars, vocarooVars>>

Spec == Init /\ [][Next]_vars

\* Tokio polls both halves of a task.  A request ends, with an answer or an error,
\* unless Lost says that it does not; and who waits for Context::data gets it in
\* turn, unless somebody keeps it for ever.
Fairness == \A m \in Messages : WF_vars(Filter(m)) /\ WF_vars(Conversion(m))

FairSpec == Spec /\ Fairness
-----------------------------------------------------------------------------
\* Both handlers of every message come to their end, whatever fails and whoever
\* deletes the message first.  Only an answer that never comes keeps one: the filter
\* one of its own, the conversion one to whoever has Context::data, which is then
\* locked for good.
HandlersEnd ==
    \A m \in Messages :
        Scanning(m) \/ conv[m].pc \in {"lock", "download"}
        ~> /\ scan[m].pc \in {"done", "stuck"}
           /\ conv[m].pc = "done" \/ locked \/ (\E n \in Messages : conv[n].pc = "stuck")
=============================================================================
