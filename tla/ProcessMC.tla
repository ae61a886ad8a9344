------------------------------ MODULE ProcessMC ------------------------------
(* Instances of Process: what the script does, and how often, is bounded.   *)
EXTENDS Process

CONSTANTS Modes,        \* how the script launches: "async", "sync"
          StreamNames,  \* the streams modelled
          MaxStdin,     \* blobs the script writes to stdin, at most
          MaxStdinClose,\* calls of close on stdin, at most
          Asks          \* what else it does: "signal", "stdout"

User == <<"user", 0>>
MCStreams ==
  IF StreamNames = {"stdout"} THEN <<"stdout">> ELSE <<"stdout", "stderr">>
MCUserPipes == {User}
NoUserPipes == {}
MCPipes == ((StreamNames \cup {"stdin"}) \X (0 .. Generations)) \cup UserPipes
MCOuts == StreamNames \X (1 .. Generations)
MCIns == {"stdin"} \X (1 .. Generations)
MCThreads == {<<"main", 0>>} \cup MCOuts
MCOthers == 1 .. Launches
MCBlobs == (StreamNames \X (1 .. Launches) \X (1 .. MaxOutput))
             \cup ({"stdin"} \X {0} \X (1 .. MaxStdin))
\* Nothing is attached to the script's pipes.
NoLinks == [s \in StreamNames |-> <<>>]

StdinGiven == Len(written[ends["stdin"]])

\* A script that gives options gives them before it launches.
OptionsGiven == "stdout" \in Asks => \A s \in StreamNames : ends[s] \in UserPipes

MCScript ==
  \/ "async" \in Modes /\ OptionsGiven /\ LaunchAsync
  \/ "sync" \in Modes /\ LaunchSync
  \/ "signal" \in Asks /\ SendSignal
  \/ StdinGiven < MaxStdin /\ ScriptCalls(<<"stdin", 0, StdinGiven + 1>>)
  \/ closesAsked[ends["stdin"]] < MaxStdinClose /\ ScriptCalls(CloseCall)
  \/ "stdout" \in Asks /\ \E p \in UserPipes, s \in StreamNames : SetStdout(s, p)

MCSpec == ProcInit /\ [][MCScript \/ Running]_procVars
MCFairSpec == MCSpec /\ ProcFairness

\* A constraint of proc_live: in one behaviour the script closes stdin or children write.
Closes == \E p \in Pipes : p[1] = "stdin" /\ closesAsked[p] > 0
Writes == \E n \in 1 .. Launches, s \in StreamNames : produced[n][s] > 0
OneOfThem == ~(Closes /\ Writes)'
===============================================================================
