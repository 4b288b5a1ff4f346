-------------------------- MODULE SingleInstance --------------------------
(***************************************************************************)
(* app.requestSingleInstanceLock (src/api/app/src/app_builtin.cpp): every  *)
(* instance of an application calls it once when it starts.                *)
(*                                                                         *)
(* The call runs on the main thread from its first to its last line, but   *)
(* the instances run side by side and meet in the file system: each system *)
(* call is a step.  A listening socket has the instance that bound it for  *)
(* a name; the lock path leads to at most one of them, which may be gone.  *)
(***************************************************************************)
EXTENDS Naturals, Sequences

CONSTANTS Instances,
          NoInstance

VARIABLES
    lockPath,        \* the instance whose socket is bound at LockPath()
    listening,       \* instances whose socket listens
    backlog,         \* backlog[i]: connections i has not accepted, by instance
    at,              \* at[i]: where i is in its call, or in the accept callback
    told,            \* told[i]: what its call answered: "none", "true", "false"
    argvIn,          \* argvIn[i]: connections to which i has written its argv
    launched         \* history: the secondInstance events the listener hands to
                     \* Emit, <<holder, second>>; Emit drops them (see Session)

instVars == <<lockPath, listening, backlog, at, told, argvIn, launched>>

Init ==
    /\ lockPath = NoInstance
    /\ listening = {}
    /\ backlog = [i \in Instances |-> <<>>]
    /\ at = [i \in Instances |-> "start"]
    /\ told = [i \in Instances |-> "none"]
    /\ argvIn = [i \in Instances |-> "no"]
    /\ launched = <<>>

Goto(i, label) == at' = [at EXCEPT ![i] = label]

\* unlink: the file may be an orphan, or the lock of a live instance.
Unlink(i) ==
    /\ at[i] = "start"
    /\ lockPath' = NoInstance
    /\ Goto(i, "bind")
    /\ UNCHANGED <<listening, backlog, told, argvIn, launched>>

Bind(i) ==
    /\ at[i] = "bind"
    /\ IF lockPath = NoInstance
       THEN lockPath' = i /\ Goto(i, "listen")
       ELSE UNCHANGED lockPath /\ Goto(i, "connect")
    /\ UNCHANGED <<listening, backlog, told, argvIn, launched>>

Listen(i) ==
    /\ at[i] = "listen"
    /\ listening' = listening \cup {i}
    /\ told' = [told EXCEPT ![i] = "true"]
    /\ Goto(i, "loop")
    /\ UNCHANGED <<lockPath, backlog, argvIn, launched>>

Connect(i) ==
    /\ at[i] = "connect"
    /\ IF lockPath \in listening
       THEN /\ backlog' = [backlog EXCEPT ![lockPath] = Append(@, i)]
            /\ Goto(i, "write")
            /\ UNCHANGED told
       ELSE /\ told' = [told EXCEPT ![i] = "false"]      \* nobody to tell
            /\ Goto(i, "loop")
            /\ UNCHANGED backlog
    /\ UNCHANGED <<lockPath, listening, argvIn, launched>>

\* The argv, and the close that follows it.
Write(i) ==
    /\ at[i] = "write"
    /\ argvIn' = [argvIn EXCEPT ![i] = "yes"]
    /\ told' = [told EXCEPT ![i] = "false"]
    /\ Goto(i, "loop")
    /\ UNCHANGED <<lockPath, listening, backlog, launched>>

\* The accept callback: one read, which waits for the other side to write or
\* to close; the main loop of i stands still meanwhile.
Accept(i) ==
    /\ at[i] = "loop" /\ i \in listening
    /\ backlog[i] # <<>>
    /\ Goto(i, "read")
    /\ UNCHANGED <<lockPath, listening, backlog, told, argvIn, launched>>

\* Fault: the connection stays in the list, and is read again.
ReadKeeps(i) ==
    /\ at[i] = "read"
    /\ LET other == Head(backlog[i])
       IN /\ argvIn[other] = "yes" \/ at[other] = "gone"
          /\ launched' = IF argvIn[other] = "yes"
                         THEN Append(launched, <<i, other>>) ELSE launched
    /\ Goto(i, "loop")
    /\ Len(launched) < 3
    /\ UNCHANGED <<lockPath, listening, backlog, told, argvIn>>

\* Fault: the read does not wait for the other side.
ReadNoWait(i) ==
    /\ at[i] = "read"
    /\ LET other == Head(backlog[i])
       IN launched' = IF argvIn[other] = "yes"
                      THEN Append(launched, <<i, other>>) ELSE launched
    /\ backlog' = [backlog EXCEPT ![i] = Tail(@)]
    /\ Goto(i, "loop")
    /\ UNCHANGED <<lockPath, listening, told, argvIn>>

Read(i) ==
    /\ at[i] = "read"
    /\ LET other == Head(backlog[i])
       IN /\ argvIn[other] = "yes" \/ at[other] = "gone"
          /\ launched' = IF argvIn[other] = "yes"
                         THEN Append(launched, <<i, other>>) ELSE launched
    /\ backlog' = [backlog EXCEPT ![i] = Tail(@)]
    /\ Goto(i, "loop")
    /\ UNCHANGED <<lockPath, listening, told, argvIn>>

\* The instance ends or crashes, anywhere; its socket file stays.
Gone(i) ==
    /\ at[i] \notin {"start", "gone"}
    /\ Goto(i, "gone")
    /\ listening' = listening \ {i}
    /\ backlog' = [backlog EXCEPT ![i] = <<>>]
    /\ UNCHANGED <<lockPath, told, argvIn, launched>>

Call(i) == Unlink(i) \/ Bind(i) \/ Listen(i) \/ Connect(i) \/ Write(i)

Next == \E i \in Instances : Call(i) \/ Accept(i) \/ Read(i) \/ Gone(i)

\* A call that has begun goes on, and a main loop serves its sources.
Fairness ==
    \A i \in Instances :
        WF_instVars(at[i] # "start" /\ Call(i)) /\ WF_instVars(Accept(i)) /\ WF_instVars(Read(i))

-----------------------------------------------------------------------------
(***************************************************************************)
(* A second instance announces itself once: every secondInstance event is  *)
(* of an instance that was told "false", or is about to be, its listener   *)
(* was told "true", and no instance is announced twice or to itself.       *)
(***************************************************************************)
AnnouncedOnce ==
    /\ \A n \in 1 .. Len(launched) :
          /\ told[launched[n][1]] = "true"
          /\ told[launched[n][2]] = "false"
    /\ \A m, n \in 1 .. Len(launched) : launched[m][2] = launched[n][2] => m = n

(***************************************************************************)
(* An instance that has reached another one is announced to its listener,  *)
(* unless one of the two goes away.                                        *)
(***************************************************************************)
HandedOver ==
    \A i \in Instances : \A j \in Instances \ {i} :
        (\E n \in 1 .. Len(backlog[j]) : backlog[j][n] = i)
            ~> \/ <<j, i>> \in {launched[n] : n \in 1 .. Len(launched)}
               \/ "gone" \in {at[i], at[j]}

(***************************************************************************)
(* The comment above the function: the first instance binds and listens,   *)
(* the second one connects, hands its argv over and leaves.  So there are  *)
(* never two live instances that were both told to be the first.           *)
(***************************************************************************)
OneHolder ==
    \A i, j \in listening : told[i] = "true" /\ told[j] = "true" => i = j
=============================================================================
