-------------------------- MODULE SubprocessProofs --------------------------
(* Theorems about one bounded call, on every system, for any output, any      *)
(* number of failures and whatever descendants leave the group.               *)
EXTENDS Subprocess, TLAPS

\* Where the caller is: before its process is there, with the process, and after it was reaped.
Begun    == {"register", "open", "dup", "wait"}
Settling == {"input", "join input", "join", "shut", "rejoin", "settle"}
Closing  == {"close", "judge", "answer", "returned"}

\* What the caller has in hand at each of its steps: the process, the job object that owns it on
\* Windows, the callback and its number of the child's input.
CallerOK ==
    /\ pc = "start" => child = "none" /\ job = "none"
    /\ pc = "setup" => child = "suspended" /\ job = "none" /\ system = "nt"
    /\ pc \in {"start", "setup"} => heir = "none"
    /\ pc \in {"start", "setup", "register"} => cancel \in {"no", "early"}
    /\ pc \in Begun => child \in {"runs", "exited"}
    /\ pc \in Settling \union Closing => child = "reaped"
    /\ pc \in Begun \union Settling => (job = "open" <=> system = "nt")
    /\ pc \in {"open", "dup", "wait"} \union Settling => cancel \notin {"no", "early"}
    /\ pc \in {"start", "setup", "register", "open", "dup"} => fd = "none"
    /\ pc \in (Settling \ {"input"}) \union Closing => fd # "ours"
    /\ pc \in Closing => job # "open" /\ cancel \notin {"no", "early", "heard"}
    /\ pc \in Closing \union {"raised"} /\ system = "nt" => heir \in {"none", "gone"}
    /\ pc = "raised" => child \in {"none", "reaped"} /\ job # "open" /\ cancel # "heard" /\ fd # "ours"

\* A timeout has killed and reaped the group, and a callback that is done has stopped the child.
StopsOK ==
    /\ timed => child = "reaped" /\ heir \notin {"kin", "mute"}
    /\ cancel = "done" => child # "runs"

\* A reader is done when it has an error to tell, or when it has it all and nobody is left to write.
ReadersOK ==
    \A s \in Pipes :
        /\ pc \in {"start", "setup", "register", "open"} => reader[s] = "none"
        /\ reader[s] = "holds" => got[s] < made[s]
        /\ reader[s] = "fails" => s \in errors
        /\ reader[s] = "done" => s \in errors \/ (got[s] = made[s] /\ ~Alive)

\* The caller goes on to close when the readers are done or when it knows that one is late, and the
\* manifest says complete when the readers had no error.
AnswersOK ==
    /\ pc \in {"settle"} \union Closing /\ ~late => Joined
    /\ artifact["manifest"] = "complete" => pc \in {"answer", "returned", "raised"}
    /\ (pc = "returned" \/ artifact["manifest"] = "complete") /\ ~late =>
          ~Alive /\ \A s \in Pipes : reader[s] = "done" /\ got[s] = made[s]

CallInv == TypeOK /\ CallerOK /\ StopsOK /\ ReadersOK /\ AnswersOK

-----------------------------------------------------------------------------
\* The caller keeps the invariant until it waits.
LEMMA BeginKeeps ==
    ASSUME CallInv, (Spawn \/ Refused \/ Setup \/ Register \/ Open \/ Dup)
    PROVE  CallInv'
<1>. USE SubprocessAssumption DEF SubprocessAssumption, CallInv, TypeOK, CallTypes, ThreadTypes, ResultTypes, tree, threads
<1>1. CASE Spawn
  <2>1. (pc \in Steps)'
    BY <1>1 DEF Spawn, Fault, Steps
  <2>2. CallTypes'
    BY <1>1 DEF Spawn, Fault
  <2>3. ThreadTypes'
    BY <1>1 DEF Spawn, Fault, ReadersOK
  <2>4. ResultTypes'
    BY <1>1 DEF Spawn, Fault
  <2>5. CallerOK'
    BY <1>1 DEF Spawn, Fault, CallerOK, Begun, Settling, Closing
  <2>6. StopsOK'
    BY <1>1 DEF Spawn, Fault, StopsOK, CallerOK
  <2>7. ReadersOK'
    BY <1>1 DEF Spawn, Fault, ReadersOK, CallerOK, Alive
  <2>8. AnswersOK'
    BY <1>1 DEF Spawn, Fault, AnswersOK, ReadersOK, CallerOK, StopsOK, Begun, Settling, Closing,
       Alive, Joined
  <2>. QED
    BY <2>1, <2>2, <2>3, <2>4, <2>5, <2>6, <2>7, <2>8
<1>2. CASE Refused
  <2>1. (pc \in Steps)'
    BY <1>2 DEF Refused, Goto, Steps
  <2>2. CallTypes'
    BY <1>2 DEF Refused, Goto
  <2>3. ThreadTypes'
    BY <1>2 DEF Refused, Goto, ReadersOK
  <2>4. ResultTypes'
    BY <1>2 DEF Refused, Goto
  <2>5. CallerOK'
    BY <1>2 DEF Refused, Goto, CallerOK, Begun, Settling, Closing
  <2>6. StopsOK'
    BY <1>2 DEF Refused, Goto, StopsOK, CallerOK
  <2>7. ReadersOK'
    BY <1>2 DEF Refused, Goto, ReadersOK, CallerOK, Alive
  <2>8. AnswersOK'
    BY <1>2 DEF Refused, Goto, AnswersOK, ReadersOK, CallerOK, StopsOK, Begun, Settling, Closing,
       Alive, Joined
  <2>. QED
    BY <2>1, <2>2, <2>3, <2>4, <2>5, <2>6, <2>7, <2>8
<1>3. CASE Setup
  <2>1. (pc \in Steps)'
    BY <1>3 DEF Setup, Fault, Steps
  <2>2. CallTypes'
    BY <1>3 DEF Setup, Fault
  <2>3. ThreadTypes'
    BY <1>3 DEF Setup, Fault, ReadersOK
  <2>4. ResultTypes'
    BY <1>3 DEF Setup, Fault
  <2>5. CallerOK'
    BY <1>3 DEF Setup, Fault, CallerOK, Begun, Settling, Closing
  <2>6. StopsOK'
    BY <1>3 DEF Setup, Fault, StopsOK, CallerOK
  <2>7. ReadersOK'
    BY <1>3 DEF Setup, Fault, ReadersOK, CallerOK, Alive
  <2>8. AnswersOK'
    BY <1>3 DEF Setup, Fault, AnswersOK, ReadersOK, CallerOK, StopsOK, Begun, Settling, Closing,
       Alive, Joined
  <2>. QED
    BY <2>1, <2>2, <2>3, <2>4, <2>5, <2>6, <2>7, <2>8
<1>4. CASE Register
  <2>1. (pc \in Steps)'
    BY <1>4 DEF Register, Goto, Kill, KillHeirs, Doomed, Steps
  <2>2. CallTypes'
    BY <1>4 DEF Register, Goto, Kill, KillHeirs, Doomed
  <2>3. ThreadTypes'
    BY <1>4 DEF Register, Goto, Kill, KillHeirs, Doomed, ReadersOK
  <2>4. ResultTypes'
    BY <1>4 DEF Register, Goto, Kill, KillHeirs, Doomed
  <2>5. CallerOK'
    BY <1>4 DEF Register, Goto, Kill, KillHeirs, Doomed, CallerOK, Begun, Settling, Closing
  <2>6. StopsOK'
    BY <1>4 DEF Register, Goto, Kill, KillHeirs, Doomed, StopsOK, CallerOK
  <2>7. ReadersOK'
    BY <1>4 DEF Register, Goto, Kill, KillHeirs, Doomed, ReadersOK, CallerOK, Alive
  <2>8. AnswersOK'
    BY <1>4 DEF Register, Goto, Kill, KillHeirs, Doomed, AnswersOK, ReadersOK, CallerOK, StopsOK,
       Begun, Settling, Closing, Alive, Joined
  <2>. QED
    BY <2>1, <2>2, <2>3, <2>4, <2>5, <2>6, <2>7, <2>8
<1>5. CASE Open
  <2>1. (pc \in Steps)'
    BY <1>5 DEF Open, Fault, KillAndWait, KillHeirs, Doomed, Steps
  <2>2. CallTypes'
    BY <1>5 DEF Open, Fault, KillAndWait, KillHeirs, Doomed
  <2>3. ThreadTypes'
    BY <1>5 DEF Open, Fault, KillAndWait, KillHeirs, Doomed, ReadersOK
  <2>4. ResultTypes'
    BY <1>5 DEF Open, Fault, KillAndWait, KillHeirs, Doomed
  <2>5. CallerOK'
    BY <1>5 DEF Open, Fault, KillAndWait, KillHeirs, Doomed, CallerOK, Begun, Settling, Closing
  <2>6. StopsOK'
    BY <1>5 DEF Open, Fault, KillAndWait, KillHeirs, Doomed, StopsOK, CallerOK
  <2>7. ReadersOK'
    BY <1>5 DEF Open, Fault, KillAndWait, KillHeirs, Doomed, ReadersOK, CallerOK, Alive
  <2>8. AnswersOK'
    BY <1>5 DEF Open, Fault, KillAndWait, KillHeirs, Doomed, AnswersOK, ReadersOK, CallerOK,
       StopsOK, Begun, Settling, Closing, Alive, Joined
  <2>. QED
    BY <2>1, <2>2, <2>3, <2>4, <2>5, <2>6, <2>7, <2>8
<1>6. CASE Dup
  <2>1. (pc \in Steps)'
    BY <1>6 DEF Dup, Fault, Steps
  <2>2. CallTypes'
    BY <1>6 DEF Dup, Fault
  <2>3. ThreadTypes'
    BY <1>6 DEF Dup, Fault, ReadersOK
  <2>4. ResultTypes'
    BY <1>6 DEF Dup, Fault
  <2>5. CallerOK'
    BY <1>6 DEF Dup, Fault, CallerOK, Begun, Settling, Closing
  <2>6. StopsOK'
    BY <1>6 DEF Dup, Fault, StopsOK, CallerOK
  <2>7. ReadersOK'
    BY <1>6 DEF Dup, Fault, ReadersOK, CallerOK, Alive
  <2>8. AnswersOK'
    BY <1>6 DEF Dup, Fault, AnswersOK, ReadersOK, CallerOK, StopsOK, Begun, Settling, Closing,
       Alive, Joined
  <2>. QED
    BY <2>1, <2>2, <2>3, <2>4, <2>5, <2>6, <2>7, <2>8
<1>. QED
  BY <1>1, <1>2, <1>3, <1>4, <1>5, <1>6

\* The caller keeps it while it waits and settles with its threads.
LEMMA SettleKeeps ==
    ASSUME CallInv, NEW s \in Pipes, (Wait \/ CloseInput \/ JoinInput \/ Join \/ Shut(s) \/ Rejoin \/ Settle)
    PROVE  CallInv'
<1>. USE SubprocessAssumption DEF SubprocessAssumption, CallInv, TypeOK, CallTypes, ThreadTypes, ResultTypes, tree, threads
<1>1. CASE Wait
  <2>1. (pc \in Steps)'
    BY <1>1 DEF Wait, Goto, KillAndWait, KillHeirs, Doomed, Steps
  <2>2. CallTypes'
    BY <1>1 DEF Wait, Goto, KillAndWait, KillHeirs, Doomed
  <2>3. ThreadTypes'
    BY <1>1 DEF Wait, Goto, KillAndWait, KillHeirs, Doomed, ReadersOK
  <2>4. ResultTypes'
    BY <1>1 DEF Wait, Goto, KillAndWait, KillHeirs, Doomed
  <2>5. CallerOK'
    BY <1>1 DEF Wait, Goto, KillAndWait, KillHeirs, Doomed, CallerOK, Begun, Settling, Closing
  <2>6. StopsOK'
    BY <1>1 DEF Wait, Goto, KillAndWait, KillHeirs, Doomed, StopsOK, CallerOK
  <2>7. ReadersOK'
    BY <1>1 DEF Wait, Goto, KillAndWait, KillHeirs, Doomed, ReadersOK, CallerOK, Alive
  <2>8. AnswersOK'
    BY <1>1 DEF Wait, Goto, KillAndWait, KillHeirs, Doomed, AnswersOK, ReadersOK, CallerOK,
       StopsOK, Begun, Settling, Closing, Alive, Joined
  <2>. QED
    BY <2>1, <2>2, <2>3, <2>4, <2>5, <2>6, <2>7, <2>8
<1>2. CASE CloseInput
  <2>1. (pc \in Steps)'
    BY <1>2 DEF CloseInput, Goto, CloseFd, Steps
  <2>2. CallTypes'
    BY <1>2 DEF CloseInput, Goto, CloseFd
  <2>3. ThreadTypes'
    BY <1>2 DEF CloseInput, Goto, CloseFd, ReadersOK
  <2>4. ResultTypes'
    BY <1>2 DEF CloseInput, Goto, CloseFd
  <2>5. CallerOK'
    BY <1>2 DEF CloseInput, Goto, CloseFd, CallerOK, Begun, Settling, Closing
  <2>6. StopsOK'
    BY <1>2 DEF CloseInput, Goto, CloseFd, StopsOK, CallerOK
  <2>7. ReadersOK'
    BY <1>2 DEF CloseInput, Goto, CloseFd, ReadersOK, CallerOK, Alive
  <2>8. AnswersOK'
    BY <1>2 DEF CloseInput, Goto, CloseFd, AnswersOK, ReadersOK, CallerOK, StopsOK, Begun,
       Settling, Closing, Alive, Joined
  <2>. QED
    BY <2>1, <2>2, <2>3, <2>4, <2>5, <2>6, <2>7, <2>8
<1>3. CASE JoinInput
  <2>1. (pc \in Steps)'
    BY <1>3 DEF JoinInput, Goto, Kill, KillHeirs, Doomed, Steps
  <2>2. CallTypes'
    BY ZenonT(60), <1>3 DEF JoinInput, Goto, Kill, KillHeirs, Doomed
  <2>3. ThreadTypes'
    BY <1>3 DEF JoinInput, Goto, Kill, KillHeirs, Doomed, ReadersOK
  <2>4. ResultTypes'
    BY <1>3 DEF JoinInput, Goto, Kill, KillHeirs, Doomed
  <2>5. CallerOK'
    BY <1>3 DEF JoinInput, Goto, Kill, KillHeirs, Doomed, CallerOK, Begun, Settling, Closing
  <2>6. StopsOK'
    BY <1>3 DEF JoinInput, Goto, Kill, KillHeirs, Doomed, StopsOK, CallerOK
  <2>7. ReadersOK'
    BY <1>3 DEF JoinInput, Goto, Kill, KillHeirs, Doomed, ReadersOK, CallerOK, Alive
  <2>8. AnswersOK'
    BY <1>3 DEF JoinInput, Goto, Kill, KillHeirs, Doomed, AnswersOK, ReadersOK, CallerOK, StopsOK,
       Begun, Settling, Closing, Alive, Joined
  <2>. QED
    BY <2>1, <2>2, <2>3, <2>4, <2>5, <2>6, <2>7, <2>8
<1>4. CASE Join
  <2>1. (pc \in Steps)'
    BY <1>4 DEF Join, Joined, Expires, Blocked, Kill, KillHeirs, Doomed, Steps
  <2>2. CallTypes'
    BY <1>4 DEF Join, Joined, Expires, Blocked, Kill, KillHeirs, Doomed
  <2>3. ThreadTypes'
    BY <1>4 DEF Join, Joined, Expires, Blocked, Kill, KillHeirs, Doomed, ReadersOK
  <2>4. ResultTypes'
    BY <1>4 DEF Join, Joined, Expires, Blocked, Kill, KillHeirs, Doomed
  <2>5. CallerOK'
    BY <1>4 DEF Join, Joined, Expires, Blocked, Kill, KillHeirs, Doomed, CallerOK, Begun,
       Settling, Closing
  <2>6. StopsOK'
    BY <1>4 DEF Join, Joined, Expires, Blocked, Kill, KillHeirs, Doomed, StopsOK, CallerOK
  <2>7. ReadersOK'
    BY <1>4 DEF Join, Joined, Expires, Blocked, Kill, KillHeirs, Doomed, ReadersOK, CallerOK,
       Alive
  <2>8. AnswersOK'
    BY <1>4 DEF Join, Joined, Expires, Blocked, Kill, KillHeirs, Doomed, AnswersOK, ReadersOK,
       CallerOK, StopsOK, Begun, Settling, Closing, Alive
  <2>. QED
    BY <2>1, <2>2, <2>3, <2>4, <2>5, <2>6, <2>7, <2>8
<1>5. CASE Shut(s)
  <2>1. (pc \in Steps)'
    BY <1>5 DEF Shut, Steps
  <2>2. CallTypes'
    BY <1>5 DEF Shut
  <2>3. ThreadTypes'
    BY <1>5 DEF Shut, ReadersOK
  <2>4. ResultTypes'
    BY <1>5 DEF Shut
  <2>5. CallerOK'
    BY <1>5 DEF Shut, CallerOK, Begun, Settling, Closing
  <2>6. StopsOK'
    BY <1>5 DEF Shut, StopsOK, CallerOK
  <2>7. ReadersOK'
    BY <1>5 DEF Shut, ReadersOK, CallerOK, Alive
  <2>8. AnswersOK'
    BY <1>5 DEF Shut, AnswersOK, ReadersOK, CallerOK, StopsOK, Begun, Settling, Closing, Alive,
       Joined
  <2>. QED
    BY <2>1, <2>2, <2>3, <2>4, <2>5, <2>6, <2>7, <2>8
<1>6. CASE Rejoin
  <2>1. (pc \in Steps)'
    BY <1>6 DEF Rejoin, Goto, Joined, Steps
  <2>2. CallTypes'
    BY <1>6 DEF Rejoin, Goto, Joined
  <2>3. ThreadTypes'
    BY <1>6 DEF Rejoin, Goto, Joined, ReadersOK
  <2>4. ResultTypes'
    BY <1>6 DEF Rejoin, Goto, Joined
  <2>5. CallerOK'
    BY <1>6 DEF Rejoin, Goto, Joined, CallerOK, Begun, Settling, Closing
  <2>6. StopsOK'
    BY <1>6 DEF Rejoin, Goto, Joined, StopsOK, CallerOK
  <2>7. ReadersOK'
    BY <1>6 DEF Rejoin, Goto, Joined, ReadersOK, CallerOK, Alive
  <2>8. AnswersOK'
    BY <1>6 DEF Rejoin, Goto, Joined, AnswersOK, ReadersOK, CallerOK, StopsOK, Begun, Settling,
       Closing, Alive
  <2>. QED
    BY <2>1, <2>2, <2>3, <2>4, <2>5, <2>6, <2>7, <2>8
<1>7. CASE Settle
  <2>1. (pc \in Steps)'
    BY <1>7 DEF Settle, Goto, Kill, KillHeirs, Doomed, Steps
  <2>2. CallTypes'
    BY <1>7 DEF Settle, Goto, Kill, KillHeirs, Doomed
  <2>3. ThreadTypes'
    BY <1>7 DEF Settle, Goto, Kill, KillHeirs, Doomed, ReadersOK
  <2>4. ResultTypes'
    BY <1>7 DEF Settle, Goto, Kill, KillHeirs, Doomed
  <2>5. CallerOK'
    BY <1>7 DEF Settle, Goto, Kill, KillHeirs, Doomed, CallerOK, Begun, Settling, Closing
  <2>6. StopsOK'
    BY <1>7 DEF Settle, Goto, Kill, KillHeirs, Doomed, StopsOK, CallerOK
  <2>7. ReadersOK'
    BY <1>7 DEF Settle, Goto, Kill, KillHeirs, Doomed, ReadersOK, CallerOK, Alive
  <2>8. AnswersOK'
    BY <1>7 DEF Settle, Goto, Kill, KillHeirs, Doomed, AnswersOK, ReadersOK, CallerOK, StopsOK,
       Begun, Settling, Closing, Alive, Joined
  <2>. QED
    BY <2>1, <2>2, <2>3, <2>4, <2>5, <2>6, <2>7, <2>8
<1>. QED
  BY <1>1, <1>2, <1>3, <1>4, <1>5, <1>6, <1>7

\* The caller keeps it while it closes its artifacts and answers.
LEMMA CloseKeeps ==
    ASSUME CallInv, (Close \/ Judge \/ Answer)
    PROVE  CallInv'
<1>. USE SubprocessAssumption DEF SubprocessAssumption, CallInv, TypeOK, CallTypes, ThreadTypes, ResultTypes, tree, threads
<1>1. CASE Close
  <2>1. (pc \in Steps)'
    BY <1>1 DEF Close, Goto, Fault, Steps
  <2>2. CallTypes'
    BY <1>1 DEF Close, Goto, Fault
  <2>3. ThreadTypes'
    BY <1>1 DEF Close, Goto, Fault, ReadersOK
  <2>4. ResultTypes'
    <3>1. artifact' \in [Pipes \union {"manifest"} -> {"none", "open", "closed", "aborted", "complete"}]
      <4>1. CASE "artifact" \in asks
        <5>1. PICK f \in SUBSET Pipes :
                 artifact' = [p \in DOMAIN artifact |-> IF p = "manifest" THEN "none"
                                                        ELSE IF f # {} THEN "aborted" ELSE "closed"]
          BY <1>1, <4>1 DEF Close
        <5>2. DOMAIN artifact = Pipes \union {"manifest"}
          OBVIOUS
        <5>. QED
          BY <5>1, <5>2
      <4>2. CASE "artifact" \notin asks
        BY <1>1, <4>2 DEF Close
      <4>. QED
        BY <4>1, <4>2
    <3>2. errors' \subseteq {"stdout", "stderr", "stdin", "close"}
      <4>1. CASE "artifact" \in asks
        <5>1. PICK f \in SUBSET Pipes : errors' = errors \union {"close" : p \in f}
          BY <1>1, <4>1 DEF Close
        <5>2. \A e \in {"close" : p \in f} : e = "close"
          OBVIOUS
        <5>. QED
          BY <5>1, <5>2
      <4>2. CASE "artifact" \notin asks
        BY <1>1, <4>2 DEF Close
      <4>. QED
        BY <4>1, <4>2
    <3>3. faults' \in 0..Faults
      BY <1>1 DEF Close, Goto, Fault
    <3>. QED
      BY <3>1, <3>2, <3>3
  <2>5. CallerOK'
    BY <1>1 DEF Close, Goto, Fault, CallerOK, Begun, Settling, Closing
  <2>6. StopsOK'
    BY <1>1 DEF Close, Goto, Fault, StopsOK, CallerOK
  <2>7. ReadersOK'
    BY <1>1 DEF Close, Goto, Fault, ReadersOK, CallerOK, Alive
  <2>8. AnswersOK'
    BY <1>1 DEF Close, Goto, Fault, AnswersOK, ReadersOK, CallerOK, StopsOK, Begun, Settling,
       Closing, Alive, Joined
  <2>. QED
    BY <2>1, <2>2, <2>3, <2>4, <2>5, <2>6, <2>7, <2>8
<1>2. CASE Judge
  <2>1. (pc \in Steps)'
    BY <1>2 DEF Judge, Fault, Steps
  <2>2. CallTypes'
    BY <1>2 DEF Judge, Fault
  <2>3. ThreadTypes'
    BY <1>2 DEF Judge, Fault, ReadersOK
  <2>4. ResultTypes'
    BY <1>2 DEF Judge, Fault
  <2>5. CallerOK'
    BY <1>2 DEF Judge, Fault, CallerOK, Begun, Settling, Closing
  <2>6. StopsOK'
    BY <1>2 DEF Judge, Fault, StopsOK, CallerOK
  <2>7. ReadersOK'
    BY <1>2 DEF Judge, Fault, ReadersOK, CallerOK, Alive
  <2>8. AnswersOK'
    <3>1. UNCHANGED <<child, heir, reader, got, made, late>> /\ pc = "judge" /\ pc' \in {"answer", "raised"}
      BY <1>2 DEF Judge, Fault
    <3>2. ~late => Joined
      BY <3>1 DEF AnswersOK, Closing
    <3>3. artifact["manifest"] # "complete"
      BY <3>1 DEF AnswersOK
    <3>4. artifact'["manifest"] = "complete" => pc' = "answer" /\ errors \ {"stdin"} = {}
      BY <1>2, <3>3 DEF Judge
    <3>5. ~late /\ errors \ {"stdin"} = {} => ~Alive /\ \A s \in Pipes : reader[s] = "done" /\ got[s] = made[s]
      BY <3>2 DEF Joined, ReadersOK, Pipes
    <3>. QED
      BY <3>1, <3>2, <3>4, <3>5 DEF AnswersOK, Closing, Joined, Alive
  <2>. QED
    BY <2>1, <2>2, <2>3, <2>4, <2>5, <2>6, <2>7, <2>8
<1>3. CASE Answer
  <2>1. (pc \in Steps)'
    BY <1>3 DEF Answer, Steps
  <2>2. CallTypes'
    BY <1>3 DEF Answer
  <2>3. ThreadTypes'
    BY <1>3 DEF Answer, ReadersOK
  <2>4. ResultTypes'
    BY <1>3 DEF Answer
  <2>5. CallerOK'
    BY <1>3 DEF Answer, CallerOK, Begun, Settling, Closing
  <2>6. StopsOK'
    BY <1>3 DEF Answer, StopsOK, CallerOK
  <2>7. ReadersOK'
    BY <1>3 DEF Answer, ReadersOK, CallerOK, Alive
  <2>8. AnswersOK'
    <3>1. UNCHANGED <<child, heir, reader, got, made, late, artifact>> /\ pc = "answer" /\ pc' \in {"returned", "raised"}
      BY <1>3 DEF Answer
    <3>2. ~late => Joined
      BY <3>1 DEF AnswersOK, Closing
    <3>3. pc' = "returned" => errors = {}
      BY <1>3 DEF Answer
    <3>4. ~late /\ errors = {} => ~Alive /\ \A s \in Pipes : reader[s] = "done" /\ got[s] = made[s]
      BY <3>2 DEF Joined, ReadersOK, Pipes
    <3>. QED
      BY <3>1, <3>2, <3>3, <3>4 DEF AnswersOK, Closing, Joined, Alive
  <2>. QED
    BY <2>1, <2>2, <2>3, <2>4, <2>5, <2>6, <2>7, <2>8
<1>. QED
  BY <1>1, <1>2, <1>3

\* A reader keeps it.
LEMMA ReaderKeeps ==
    ASSUME CallInv, NEW s \in Pipes, Reader(s)
    PROVE  CallInv'
<1>. USE SubprocessAssumption DEF SubprocessAssumption, CallInv, TypeOK, CallTypes, ThreadTypes, ResultTypes, tree, threads
<1>1. CASE Read(s)
  <2>1. (pc \in Steps)'
    BY <1>1 DEF Read, AtReader, Steps, Alive
  <2>2. CallTypes'
    BY <1>1 DEF Read, AtReader, Alive
  <2>3. ThreadTypes'
    BY <1>1 DEF Read, AtReader, ReadersOK, Alive
  <2>4. ResultTypes'
    BY <1>1 DEF Read, AtReader, Alive
  <2>5. CallerOK'
    BY ZenonT(60), <1>1 DEF Read, AtReader, CallerOK, Begun, Settling, Closing, Alive
  <2>6. StopsOK'
    BY <1>1 DEF Read, AtReader, StopsOK, CallerOK, Alive
  <2>7. ReadersOK'
    BY <1>1 DEF Read, AtReader, ReadersOK, CallerOK, Alive
  <2>8. AnswersOK'
    BY <1>1 DEF Read, AtReader, AnswersOK, ReadersOK, CallerOK, StopsOK, Begun, Settling, Closing,
       Alive, Joined
  <2>. QED
    BY <2>1, <2>2, <2>3, <2>4, <2>5, <2>6, <2>7, <2>8
<1>2. CASE Keep(s)
  <2>1. (pc \in Steps)'
    BY <1>2 DEF Keep, AtReader, Steps
  <2>2. CallTypes'
    BY <1>2 DEF Keep, AtReader
  <2>3. ThreadTypes'
    BY <1>2 DEF Keep, AtReader, ReadersOK
  <2>4. ResultTypes'
    <3>1. errors' \subseteq {"stdout", "stderr", "stdin", "close"}
      BY <1>2 DEF Keep, AtReader, Pipes
    <3>. QED
      BY <1>2, <3>1 DEF Keep
  <2>5. CallerOK'
    BY ZenonT(60), <1>2 DEF Keep, AtReader, CallerOK, Begun, Settling, Closing
  <2>6. StopsOK'
    BY <1>2 DEF Keep, AtReader, StopsOK, CallerOK
  <2>7. ReadersOK'
    BY <1>2 DEF Keep, AtReader, ReadersOK, CallerOK, Alive
  <2>8. AnswersOK'
    BY <1>2 DEF Keep, AtReader, AnswersOK, ReadersOK, CallerOK, StopsOK, Begun, Settling, Closing,
       Alive, Joined
  <2>. QED
    BY <2>1, <2>2, <2>3, <2>4, <2>5, <2>6, <2>7, <2>8
<1>3. CASE KeepFails(s)
  <2>1. (pc \in Steps)'
    BY <1>3 DEF KeepFails, AtReader, Fault, Steps
  <2>2. CallTypes'
    BY <1>3 DEF KeepFails, AtReader, Fault
  <2>3. ThreadTypes'
    BY <1>3 DEF KeepFails, AtReader, Fault, ReadersOK
  <2>4. ResultTypes'
    <3>1. errors' \subseteq {"stdout", "stderr", "stdin", "close"}
      BY <1>3 DEF KeepFails, AtReader, Pipes
    <3>2. faults' \in 0..Faults
      BY <1>3 DEF KeepFails, Fault
    <3>. QED
      BY <1>3, <3>1, <3>2 DEF KeepFails
  <2>5. CallerOK'
    BY ZenonT(60), <1>3 DEF KeepFails, AtReader, Fault, CallerOK, Begun, Settling, Closing
  <2>6. StopsOK'
    BY <1>3 DEF KeepFails, AtReader, Fault, StopsOK, CallerOK
  <2>7. ReadersOK'
    BY <1>3 DEF KeepFails, AtReader, Fault, ReadersOK, CallerOK, Alive
  <2>8. AnswersOK'
    BY <1>3 DEF KeepFails, AtReader, Fault, AnswersOK, ReadersOK, CallerOK, StopsOK, Begun,
       Settling, Closing, Alive, Joined
  <2>. QED
    BY <2>1, <2>2, <2>3, <2>4, <2>5, <2>6, <2>7, <2>8
<1>4. CASE GiveUp(s)
  <2>1. (pc \in Steps)'
    BY <1>4 DEF GiveUp, AtReader, Kill, KillHeirs, Doomed, Steps
  <2>2. CallTypes'
    BY <1>4 DEF GiveUp, AtReader, Kill, KillHeirs, Doomed
  <2>3. ThreadTypes'
    BY <1>4 DEF GiveUp, AtReader, Kill, KillHeirs, Doomed, ReadersOK
  <2>4. ResultTypes'
    BY <1>4 DEF GiveUp, AtReader, Kill, KillHeirs, Doomed
  <2>5. CallerOK'
    BY ZenonT(60), <1>4 DEF GiveUp, AtReader, Kill, KillHeirs, Doomed, CallerOK, Begun, Settling, Closing
  <2>6. StopsOK'
    BY <1>4 DEF GiveUp, AtReader, Kill, KillHeirs, Doomed, StopsOK, CallerOK
  <2>7. ReadersOK'
    BY <1>4 DEF GiveUp, AtReader, Kill, KillHeirs, Doomed, ReadersOK, CallerOK, Alive
  <2>8. AnswersOK'
    BY <1>4 DEF GiveUp, AtReader, Kill, KillHeirs, Doomed, AnswersOK, ReadersOK, CallerOK,
       StopsOK, Begun, Settling, Closing, Alive, Joined
  <2>. QED
    BY <2>1, <2>2, <2>3, <2>4, <2>5, <2>6, <2>7, <2>8
<1>. QED
  BY <1>1, <1>2, <1>3, <1>4 DEF Reader

\* The writer keeps it.
LEMMA WriterKeeps ==
    ASSUME CallInv, Writer
    PROVE  CallInv'
<1>. USE SubprocessAssumption DEF SubprocessAssumption, CallInv, TypeOK, CallTypes, ThreadTypes, ResultTypes, tree, threads
<1>1. CASE Look
  <2>1. (pc \in Steps)'
    BY <1>1 DEF Look, Steps
  <2>2. CallTypes'
    BY <1>1 DEF Look
  <2>3. ThreadTypes'
    BY <1>1 DEF Look, ReadersOK
  <2>4. ResultTypes'
    BY <1>1 DEF Look
  <2>5. CallerOK'
    BY ZenonT(60), <1>1 DEF Look, CallerOK, Begun, Settling, Closing
  <2>6. StopsOK'
    BY <1>1 DEF Look, StopsOK, CallerOK
  <2>7. ReadersOK'
    BY <1>1 DEF Look, ReadersOK, CallerOK, Alive
  <2>8. AnswersOK'
    BY <1>1 DEF Look, AnswersOK, ReadersOK, CallerOK, StopsOK, Begun, Settling, Closing, Alive,
       Joined
  <2>. QED
    BY <2>1, <2>2, <2>3, <2>4, <2>5, <2>6, <2>7, <2>8
<1>2. CASE WriteInput
  <2>1. (pc \in Steps)'
    BY <1>2 DEF WriteInput, Fed, Unfed, Steps, Alive
  <2>2. CallTypes'
    BY <1>2 DEF WriteInput, Fed, Unfed, Alive
  <2>3. ThreadTypes'
    BY <1>2 DEF WriteInput, Fed, Unfed, ReadersOK, Alive
  <2>4. ResultTypes'
    BY <1>2 DEF WriteInput, Fed, Unfed, Alive
  <2>5. CallerOK'
    <3>1. fd' = fd \/ (fd = "theirs" /\ fd' = "robbed")
      BY <1>2 DEF WriteInput, Fed, Unfed
    <3>. QED
      BY ZenonT(60), <1>2, <3>1 DEF WriteInput, CallerOK, Begun, Settling, Closing
  <2>6. StopsOK'
    BY <1>2 DEF WriteInput, Fed, Unfed, StopsOK, CallerOK, Alive
  <2>7. ReadersOK'
    BY <1>2 DEF WriteInput, Fed, Unfed, ReadersOK, CallerOK, Alive
  <2>8. AnswersOK'
    BY <1>2 DEF WriteInput, Fed, Unfed, AnswersOK, ReadersOK, CallerOK, StopsOK, Begun, Settling,
       Closing, Alive, Joined
  <2>. QED
    BY <2>1, <2>2, <2>3, <2>4, <2>5, <2>6, <2>7, <2>8
<1>3. CASE WriterKills
  <2>1. (pc \in Steps)'
    BY <1>3 DEF WriterKills, Kill, KillHeirs, Doomed, Steps
  <2>2. CallTypes'
    BY <1>3 DEF WriterKills, Kill, KillHeirs, Doomed
  <2>3. ThreadTypes'
    BY <1>3 DEF WriterKills, Kill, KillHeirs, Doomed, ReadersOK
  <2>4. ResultTypes'
    BY <1>3 DEF WriterKills, Kill, KillHeirs, Doomed
  <2>5. CallerOK'
    BY ZenonT(60), <1>3 DEF WriterKills, Kill, KillHeirs, Doomed, CallerOK, Begun, Settling, Closing
  <2>6. StopsOK'
    BY <1>3 DEF WriterKills, Kill, KillHeirs, Doomed, StopsOK, CallerOK
  <2>7. ReadersOK'
    BY <1>3 DEF WriterKills, Kill, KillHeirs, Doomed, ReadersOK, CallerOK, Alive
  <2>8. AnswersOK'
    BY <1>3 DEF WriterKills, Kill, KillHeirs, Doomed, AnswersOK, ReadersOK, CallerOK, StopsOK,
       Begun, Settling, Closing, Alive, Joined
  <2>. QED
    BY <2>1, <2>2, <2>3, <2>4, <2>5, <2>6, <2>7, <2>8
<1>4. CASE WriterEnds
  <2>1. (pc \in Steps)'
    BY <1>4 DEF WriterEnds, CloseFd, Steps
  <2>2. CallTypes'
    BY <1>4 DEF WriterEnds, CloseFd
  <2>3. ThreadTypes'
    BY <1>4 DEF WriterEnds, CloseFd, ReadersOK
  <2>4. ResultTypes'
    BY <1>4 DEF WriterEnds, CloseFd
  <2>5. CallerOK'
    <3>1. fd' = "ours" => fd = "ours"
      BY <1>4 DEF WriterEnds, CloseFd
    <3>2. fd = "none" => fd' = "none"
      BY <1>4 DEF WriterEnds, CloseFd
    <3>3. UNCHANGED <<system, pc, child, heir, job, cancel>>
      BY <1>4 DEF WriterEnds
    <3>. QED
      BY ZenonT(60), <3>1, <3>2, <3>3, CallerOK DEF CallerOK, Begun, Settling, Closing
  <2>6. StopsOK'
    BY <1>4 DEF WriterEnds, CloseFd, StopsOK, CallerOK
  <2>7. ReadersOK'
    BY <1>4 DEF WriterEnds, CloseFd, ReadersOK, CallerOK, Alive
  <2>8. AnswersOK'
    BY <1>4 DEF WriterEnds, CloseFd, AnswersOK, ReadersOK, CallerOK, StopsOK, Begun, Settling,
       Closing, Alive, Joined
  <2>. QED
    BY <2>1, <2>2, <2>3, <2>4, <2>5, <2>6, <2>7, <2>8
<1>. QED
  BY <1>1, <1>2, <1>3, <1>4 DEF Writer

\* The callback of a cancellation keeps it.
LEMMA CallbackKeeps ==
    ASSUME CallInv, Callback
    PROVE  CallInv'
<1>. USE SubprocessAssumption DEF SubprocessAssumption, CallInv, TypeOK, CallTypes, ThreadTypes, ResultTypes, tree, threads
<1>1. CASE CallbackLooks
  <2>1. (pc \in Steps)'
    BY <1>1 DEF CallbackLooks, Steps
  <2>2. CallTypes'
    BY <1>1 DEF CallbackLooks
  <2>3. ThreadTypes'
    BY <1>1 DEF CallbackLooks, ReadersOK
  <2>4. ResultTypes'
    BY <1>1 DEF CallbackLooks
  <2>5. CallerOK'
    BY ZenonT(60), <1>1 DEF CallbackLooks, CallerOK, Begun, Settling, Closing
  <2>6. StopsOK'
    BY <1>1 DEF CallbackLooks, StopsOK, CallerOK
  <2>7. ReadersOK'
    BY <1>1 DEF CallbackLooks, ReadersOK, CallerOK, Alive
  <2>8. AnswersOK'
    BY <1>1 DEF CallbackLooks, AnswersOK, ReadersOK, CallerOK, StopsOK, Begun, Settling, Closing,
       Alive, Joined
  <2>. QED
    BY <2>1, <2>2, <2>3, <2>4, <2>5, <2>6, <2>7, <2>8
<1>2. CASE CallbackKills
  <2>1. (pc \in Steps)'
    BY <1>2 DEF CallbackKills, Kill, KillHeirs, Doomed, Steps
  <2>2. CallTypes'
    BY <1>2 DEF CallbackKills, Kill, KillHeirs, Doomed
  <2>3. ThreadTypes'
    BY <1>2 DEF CallbackKills, Kill, KillHeirs, Doomed, ReadersOK
  <2>4. ResultTypes'
    BY <1>2 DEF CallbackKills, Kill, KillHeirs, Doomed
  <2>5. CallerOK'
    BY <1>2 DEF CallbackKills, Kill, KillHeirs, Doomed, CallerOK, Begun, Settling, Closing
  <2>6. StopsOK'
    BY <1>2 DEF CallbackKills, Kill, KillHeirs, Doomed, StopsOK, CallerOK
  <2>7. ReadersOK'
    BY <1>2 DEF CallbackKills, Kill, KillHeirs, Doomed, ReadersOK, CallerOK, Alive
  <2>8. AnswersOK'
    BY <1>2 DEF CallbackKills, Kill, KillHeirs, Doomed, AnswersOK, ReadersOK, CallerOK, StopsOK,
       Begun, Settling, Closing, Alive, Joined
  <2>. QED
    BY <2>1, <2>2, <2>3, <2>4, <2>5, <2>6, <2>7, <2>8
<1>. QED
  BY <1>1, <1>2 DEF Callback

\* Whatever the program does keeps it.
LEMMA ProgramKeeps ==
    ASSUME CallInv, NEW s \in Pipes, (Fork \/ Exit \/ Emit(s))
    PROVE  CallInv'
<1>. USE SubprocessAssumption DEF SubprocessAssumption, CallInv, TypeOK, CallTypes, ThreadTypes, ResultTypes, tree, threads
<1>1. CASE Fork
  <2>1. (pc \in Steps)'
    BY <1>1 DEF Fork, Steps
  <2>2. CallTypes'
    BY <1>1 DEF Fork
  <2>3. ThreadTypes'
    BY <1>1 DEF Fork, ReadersOK
  <2>4. ResultTypes'
    BY <1>1 DEF Fork
  <2>5. CallerOK'
    BY <1>1 DEF Fork, CallerOK, Begun, Settling, Closing
  <2>6. StopsOK'
    BY <1>1 DEF Fork, StopsOK, CallerOK
  <2>7. ReadersOK'
    BY <1>1 DEF Fork, ReadersOK, CallerOK, Alive
  <2>8. AnswersOK'
    BY <1>1 DEF Fork, AnswersOK, ReadersOK, CallerOK, StopsOK, Begun, Settling, Closing, Alive,
       Joined
  <2>. QED
    BY <2>1, <2>2, <2>3, <2>4, <2>5, <2>6, <2>7, <2>8
<1>2. CASE Exit
  <2>1. (pc \in Steps)'
    BY <1>2 DEF Exit, Steps
  <2>2. CallTypes'
    BY <1>2 DEF Exit
  <2>3. ThreadTypes'
    BY <1>2 DEF Exit, ReadersOK
  <2>4. ResultTypes'
    BY <1>2 DEF Exit
  <2>5. CallerOK'
    BY ZenonT(60), <1>2 DEF Exit, CallerOK, Begun, Settling, Closing
  <2>6. StopsOK'
    BY <1>2 DEF Exit, StopsOK, CallerOK
  <2>7. ReadersOK'
    BY <1>2 DEF Exit, ReadersOK, CallerOK, Alive
  <2>8. AnswersOK'
    BY <1>2 DEF Exit, AnswersOK, ReadersOK, CallerOK, StopsOK, Begun, Settling, Closing, Alive,
       Joined
  <2>. QED
    BY <2>1, <2>2, <2>3, <2>4, <2>5, <2>6, <2>7, <2>8
<1>3. CASE Emit(s)
  <2>1. (pc \in Steps)'
    BY <1>3 DEF Emit, Steps, Alive
  <2>2. CallTypes'
    BY <1>3 DEF Emit, Alive
  <2>3. ThreadTypes'
    BY <1>3 DEF Emit, ReadersOK, Alive
  <2>4. ResultTypes'
    BY <1>3 DEF Emit, Alive
  <2>5. CallerOK'
    BY ZenonT(60), <1>3 DEF Emit, CallerOK, Begun, Settling, Closing, Alive
  <2>6. StopsOK'
    BY <1>3 DEF Emit, StopsOK, CallerOK, Alive
  <2>7. ReadersOK'
    BY <1>3 DEF Emit, ReadersOK, CallerOK, Alive
  <2>8. AnswersOK'
    BY <1>3 DEF Emit, AnswersOK, ReadersOK, CallerOK, StopsOK, Begun, Settling, Closing, Alive,
       Joined
  <2>. QED
    BY <2>1, <2>2, <2>3, <2>4, <2>5, <2>6, <2>7, <2>8
<1>. QED
  BY <1>1, <1>2, <1>3

\* A cancellation that comes, and another thread that opens a file, keep it.
LEMMA OthersKeep ==
    ASSUME CallInv, Cancel \/ Reuse \/ UNCHANGED vars
    PROVE  CallInv'
<1>. USE DEF CallInv, TypeOK, tree, threads
<1>1. CASE Cancel
  <2>1. UNCHANGED <<system, pc, child, heir, made, job, got, reader, fd, artifact, errors, timed, late>>
    BY <1>1 DEF Cancel
  <2>2. (cancel = "no" /\ cancel' = "early") \/ (cancel = "heard" /\ cancel' = "called")
    BY <1>1 DEF Cancel
  <2>3. pc \notin {"returned", "raised", "dropped"}
    BY <1>1 DEF Cancel, Ended
  <2>4. (pc \in Steps)' /\ CallTypes'
    BY <1>1 DEF Cancel, CallTypes
  <2>5. ThreadTypes' /\ ResultTypes'
    BY <1>1 DEF Cancel, ThreadTypes, ResultTypes
  <2>6. CallerOK'
    BY <2>1, <2>2, <2>3 DEF CallerOK, Begun, Settling, Closing
  <2>7. StopsOK' /\ ReadersOK'
    BY <2>1, <2>2 DEF StopsOK, ReadersOK, Alive
  <2>8. AnswersOK'
    BY <2>1 DEF AnswersOK, Closing, Joined, Alive
  <2>. QED
    BY <2>4, <2>5, <2>6, <2>7, <2>8
<1>2. CASE Reuse
  <2>1. UNCHANGED <<system, pc, child, heir, made, job, got, reader, artifact, errors, timed, late, cancel>>
    BY <1>2 DEF Reuse
  <2>2. fd = "free" /\ fd' = "theirs"
    BY <1>2 DEF Reuse
  <2>3. (pc \in Steps)' /\ CallTypes'
    BY <1>2 DEF Reuse, CallTypes
  <2>4. ThreadTypes' /\ ResultTypes'
    BY <1>2 DEF Reuse, ThreadTypes, ResultTypes
  <2>5. CallerOK'
    BY <2>1, <2>2 DEF CallerOK, Begun, Settling, Closing
  <2>6. StopsOK' /\ ReadersOK' /\ AnswersOK'
    BY <2>1 DEF StopsOK, ReadersOK, AnswersOK, Closing, Joined, Alive
  <2>. QED
    BY <2>3, <2>4, <2>5, <2>6
<1>3. CASE UNCHANGED vars
  <2>. USE <1>3 DEF vars
  <2>1. (pc \in Steps)' /\ CallTypes'
    BY DEF CallTypes
  <2>2. ThreadTypes' /\ ResultTypes'
    BY DEF ThreadTypes, ResultTypes
  <2>3. CallerOK'
    BY DEF CallerOK, Begun, Settling, Closing
  <2>4. StopsOK' /\ ReadersOK' /\ AnswersOK'
    BY DEF StopsOK, ReadersOK, AnswersOK, Closing, Joined, Alive
  <2>. QED
    BY <2>1, <2>2, <2>3, <2>4
<1>. QED
  BY <1>1, <1>2, <1>3

\* Every step of the caller, of its threads, of the program and of a client keeps the invariant.
THEOREM StepKeeps == CallInv /\ [Next]_vars => CallInv'
<1>. SUFFICES ASSUME CallInv, [Next]_vars PROVE CallInv'
  OBVIOUS
<1>1. CASE Caller
  <2>1. "stdout" \in Pipes
    BY DEF Pipes
  <2>. QED
    BY <1>1, <2>1, BeginKeeps, SettleKeeps, CloseKeeps DEF Caller
<1>2. CASE Writer \/ Callback
  BY <1>2, WriterKeeps, CallbackKeeps
<1>3. CASE Program
  <2>1. "stdout" \in Pipes
    BY DEF Pipes
  <2>. QED
    BY <1>3, <2>1, ProgramKeeps DEF Program
<1>4. ASSUME NEW s \in Pipes, Reader(s) PROVE CallInv'
  BY <1>4, ReaderKeeps
<1>5. CASE Cancel \/ Reuse \/ UNCHANGED vars
  BY <1>5, OthersKeep
<1>. QED
  BY <1>1, <1>2, <1>3, <1>4, <1>5 DEF Next

-----------------------------------------------------------------------------
\* The invariant holds of every state that a call can reach.
THEOREM CallInvHolds == Spec => []CallInv
<1>1. Init => CallInv
  <2>. SUFFICES ASSUME Init PROVE CallInv
    OBVIOUS
  <2>. USE SubprocessAssumption DEF SubprocessAssumption, Init
  <2>1. TypeOK
    <3>1. pc \in Steps
      BY DEF Steps
    <3>2. CallTypes
      BY DEF CallTypes
    <3>3. ThreadTypes /\ ResultTypes
      BY DEF ThreadTypes, ResultTypes
    <3>. QED
      BY <3>1, <3>2, <3>3 DEF TypeOK
  <2>2. CallerOK /\ StopsOK
    BY DEF CallerOK, StopsOK, Begun, Settling, Closing
  <2>3. ReadersOK /\ AnswersOK
    BY DEF ReadersOK, AnswersOK, Closing
  <2>. QED
    BY <2>1, <2>2, <2>3 DEF CallInv
<1>. QED
  BY <1>1, StepKeeps, PTL DEF Spec

\* Every part of a call has the values that the code gives it.
THEOREM TypesHold == Spec => []TypeOK
<1>1. CallInv => TypeOK
  BY DEF CallInv
<1>. QED
  BY <1>1, CallInvHolds, PTL

\* However a call ends, unless os.dup failed, its process is reaped, its job object closed, its
\* callback removed and its end of the input closed; a timeout has killed the group; an answer, or a
\* manifest that says complete, tells all that was written, unless a reader was late; and a
\* cancellation has reached the process.
THEOREM CallsAreSafe == Spec => []CallSafe
<1>1. CallInv => CallSafe
  <2>. SUFFICES ASSUME CallInv PROVE CallSafe
    OBVIOUS
  <2>1. EndsClean
    BY DEF CallInv, CallerOK, EndsClean, Closing
  <2>2. TreeIsGone
    BY DEF CallInv, CallerOK, StopsOK, TreeIsGone, Closing
  <2>3. CompleteIsAll
    BY DEF CallInv, AnswersOK, CompleteIsAll
  <2>4. CancelReaches
    BY DEF CallInv, StopsOK, CancelReaches
  <2>. QED
    BY <2>1, <2>2, <2>3, <2>4 DEF CallSafe
<1>. QED
  BY <1>1, CallInvHolds, PTL

-----------------------------------------------------------------------------
(* When a reader with work to do meets its deadline, an answer is always     *)
(* complete: nothing but a slow reader makes the last join expire.           *)

\* A pipe is closed only after the join, and only when no read is under way on it, so that at the
\* last join no reader can be blocked.
ShutInv ==
    /\ shut # {} => pc \in {"shut", "rejoin", "settle", "raised"} \union Closing
    /\ \A s \in shut : reader[s] # "reads"
    /\ pc = "rejoin" => shut = Pipes
    /\ late => Slow

PromptAnswersTellAll ==
    pc = "returned" \/ artifact["manifest"] = "complete" =>
        \A s \in Pipes : reader[s] = "done" /\ got[s] = made[s]

LEMMA ShutStep == CallInv /\ ShutInv /\ [Next]_vars => ShutInv'
<1>. SUFFICES ASSUME CallInv, ShutInv, [Next]_vars PROVE ShutInv'
  OBVIOUS
<1>1. shut \subseteq Pipes /\ reader \in [Pipes -> {"none", "reads", "holds", "fails", "done"}] /\ late \in BOOLEAN
  BY DEF CallInv, TypeOK, CallTypes, ThreadTypes
<1>. USE <1>1 DEF ShutInv, Closing, tree, threads
<1>2. CASE Spawn \/ Refused \/ Setup \/ Register \/ Dup \/ Wait \/ CloseInput \/ JoinInput
  <2>1. pc \in {"start", "setup", "register", "dup", "wait", "input", "join input"} /\ pc' # "rejoin"
    BY <1>2 DEF Spawn, Refused, Setup, Register, Dup, Wait, CloseInput, JoinInput, Goto
  <2>2. UNCHANGED <<shut, late>>
    BY <1>2 DEF Spawn, Refused, Setup, Register, Dup, Wait, CloseInput, JoinInput
  <2>3. shut = {}
    BY <2>1
  <2>. QED
    BY <2>1, <2>2, <2>3
<1>3. CASE Open
  BY <1>3 DEF Open
<1>4. CASE Join \/ Settle \/ Close \/ Judge \/ Answer
  BY <1>4 DEF Join, Settle, Close, Judge, Answer, Goto
<1>5. ASSUME NEW s \in Pipes, Shut(s) PROVE ShutInv'
  BY <1>5 DEF Shut, Pipes
<1>6. CASE Rejoin
  BY <1>6 DEF Rejoin, Goto, Joined, Expires, Blocked
<1>7. ASSUME NEW s \in Pipes, Reader(s) PROVE ShutInv'
  <2>1. UNCHANGED <<pc, shut, late>>
    BY <1>7 DEF Reader, Read, Keep, KeepFails, GiveUp
  <2>2. \A p \in shut : reader'[p] = "reads" => reader[p] = "reads"
    BY <1>7 DEF Reader, Read, Keep, KeepFails, GiveUp, AtReader
  <2>. QED
    BY <2>1, <2>2
<1>8. CASE Writer \/ Callback
  BY <1>8 DEF Writer, Look, WriteInput, WriterKills, WriterEnds, Callback, CallbackLooks, CallbackKills
<1>9. CASE Program
  BY <1>9 DEF Program, Fork, Exit, Emit
<1>10. CASE Cancel \/ Reuse \/ UNCHANGED vars
  BY <1>10 DEF Cancel, Reuse, vars
<1>. QED
  BY <1>2, <1>3, <1>4, <1>5, <1>6, <1>7, <1>8, <1>9, <1>10 DEF Next, Caller

\* When no reader with work to do misses a deadline, what is returned, or recorded as complete, is
\* all that the processes wrote, whatever else fails and whoever inherits the pipes.
THEOREM PromptAnswersAreComplete ==
    ASSUME ~Slow
    PROVE  Spec => []PromptAnswersTellAll
<1>1. Init => ShutInv
  BY DEF Init, ShutInv
<1>2. CallInv /\ ShutInv => PromptAnswersTellAll
  BY DEF CallInv, AnswersOK, ShutInv, PromptAnswersTellAll
<1>. QED
  BY <1>1, <1>2, ShutStep, CallInvHolds, PTL DEF Spec
=============================================================================
