-------------------------- MODULE DescriptorsProofs --------------------------
(***************************************************************************)
(* OPEN and the ownership of terminal streams in Descriptors, for any      *)
(* number of tasks, blocks and descriptors.                                *)
(***************************************************************************)
EXTENDS Descriptors, FiniteSetTheorems, TLAPS

Number == 0..Len-1

\* Where fd is used it has been set.
FdSet == \A t \in Task :
            /\ pc[t] = "load" => fd[t] \in Nat
            /\ pc[t] \in {"closing", "giving"} => fd[t] \in Number

\* The first program does not die, and whoever can has a parent.
Family ==
    /\ pc[Boot] \notin {"unborn", "dead", "buried", "reaped"}
    /\ \A t \in Task \ {Boot} : pc[t] # "unborn" => parent[t] \in Task

TypeInv == TypeOK /\ FdSet /\ Family

-----------------------------------------------------------------------------
(***************************************************************************)
(* Types.                                                                  *)
(***************************************************************************)
LEMMA InitType == Init => TypeInv
BY DescriptorAssumption
   DEF Init, TypeInv, TypeOK, FdSet, Family, Locations, InOpen, Stream, Closed, Block

LEMMA ErrorType == ASSUME TypeInv, NEW code, Error(code) PROVE TypeInv'
BY DEF TypeInv, TypeOK, FdSet, Family, Error, familyVars

LEMMA Streams ==
    /\ Closed \in Stream
    /\ \A position \in Position : FileAt(position) \in Stream /\ IsFile(FileAt(position))
    /\ \A b \in Block : StdIO(b) \in Stream /\ IsStdIO(StdIO(b)) /\ ~IsFile(StdIO(b))
    /\ \A stream \in Stream : IsFile(stream) => stream[2] \in Position
    /\ 0 \in Number /\ 0 \in Position /\ Size \in Position
BY DescriptorAssumption DEF Closed, FileAt, StdIO, IsFile, IsStdIO, Stream, Number, Position

\* Whatever is transferred, the position stays a number below Wrap.
LEMMA EndIsPosition ==
    ASSUME NEW position \in Position, NEW len \in Nat PROVE End(position, len) \in Position
<1>1. position + len \in Nat /\ Wrap \in Nat \ {0}
  BY DescriptorAssumption DEF Position
<1> QED BY <1>1 DEF End, Position

\* One entry of one table is changed.
LEMMA EntryType ==
    ASSUME NEW tables \in [Task -> [Number -> Stream]],
           NEW t \in Task, NEW n \in Number, NEW stream \in Stream
    PROVE  [tables EXCEPT ![t][n] = stream] \in [Task -> [Number -> Stream]]
OBVIOUS

\* giveSTDIOback moves a stream from one table to another.
LEMMA GiveBackType ==
    ASSUME TypeOK, NEW mother \in Task, NEW d \in Task
    PROVE  GiveSTDIOback(mother, d) \in [Task -> [Number -> Stream]]
<1>1. Closed \in Stream /\ 0 \in Number
  BY Streams
<1>2. table \in [Task -> [Number -> Stream]]
  BY DEF TypeOK, Number
<1> QED BY <1>1, <1>2 DEF GiveSTDIOback

LEMMA StepType == ASSUME TypeInv, NEW t \in Task, Step(t) PROVE TypeInv'
<1> USE DEF TypeInv, FdSet, Family
<1>a. /\ table \in [Task -> [Number -> Stream]] /\ lastClosed \in Nat /\ blocks \subseteq Block
      /\ pc \in [Task -> Locations] /\ hand \in [Task -> Stream]
      /\ fd \in [Task -> Nat \cup {NULL}]
      /\ parent \in [Task -> Task \cup {NULL}] /\ child \in [Task -> Task \cup {NULL}]
      /\ loaded \subseteq Task /\ raced \subseteq Task
  BY DEF TypeOK, Number
<1>b. NULL \notin Task /\ Boot \in Task /\ Len \in Nat \ {0} /\ Size \in Nat
  BY DescriptorAssumption
<1>1. CASE Open(t)
  <2>1. hand' \in [Task -> Stream] /\ blocks' \subseteq Block
    <3>1. FileAt(0) \in Stream /\ \A b \in Block : StdIO(b) \in Stream
      BY Streams
    <3> QED BY <1>1, <1>a, <3>1 DEF Open
  <2> QED BY <1>1, <1>a, <1>b, <2>1 DEF Open, Calling, familyVars, Locations, InOpen, TypeOK, Number
<1>2. CASE OpenNothing(t)
  BY <1>2, ErrorType DEF OpenNothing
<1>3. CASE Search(t)
  <2>1. CASE \E code : Error(code)
    BY <2>1, ErrorType
  <2>2. CASE ~\E code : Error(code)
    <3>1. lastClosed' \in Nat /\ raced' \subseteq Task
      BY <1>3, <1>a, <1>b, <2>2 DEF Search, Disturbed
    <3>2. /\ pc' \in [Task -> Locations]
          /\ pc' \in {pc, [pc EXCEPT ![t] = "searchAgain"], [pc EXCEPT ![t] = "install"]}
      BY <1>3, <1>a, <1>b, <2>2 DEF Search, Locations, InOpen
    <3>3. UNCHANGED <<table, blocks, hand, fd, loaded, parent, child>> /\ pc[t] \in InOpen
      BY <1>3, <2>2 DEF Search, familyVars, InOpen
    <3>4. TypeOK'
      BY <1>a, <3>1, <3>2, <3>3 DEF TypeOK, Number
    <3>5. FdSet' /\ Family'
      BY <1>a, <1>b, <3>2, <3>3 DEF InOpen
    <3> QED BY <3>4, <3>5
  <2> QED BY <2>1, <2>2
<1>4. CASE Install(t)
  <2>1. CASE lastClosed >= Len
    BY <1>4, <2>1, ErrorType DEF Install
  <2>2. CASE ~(lastClosed >= Len)
    <3>1. table' \in [Task -> [Number -> Stream]]
      <4>1. lastClosed \in Number /\ hand[t] \in Stream
        BY <1>a, <1>b, <2>2 DEF Number
      <4>2. table' = [table EXCEPT ![t][lastClosed] = hand[t]]
        BY <1>4, <2>2 DEF Install
      <4> QED BY <4>1, <4>2, <1>a, EntryType
    <3> QED BY <1>4, <1>a, <1>b, <2>2, <3>1 DEF Install, familyVars, Locations, InOpen, TypeOK, Number
  <2> QED BY <2>1, <2>2
<1>5. CASE Opened(t)
  <2>1. hand' \in [Task -> Stream] /\ raced' \subseteq Task
    BY <1>5, <1>a, Streams DEF Opened
  <2>2. CASE t \in loaded
    BY <1>5, <1>a, <1>b, <2>1, <2>2 DEF Opened, familyVars, Locations, InOpen, TypeOK, Number
  <2>3. CASE t \notin loaded
    <3>1. /\ pc[t] = "opened" /\ pc' = [pc EXCEPT ![t] = "load"]
          /\ fd' = [fd EXCEPT ![t] = lastClosed]
          /\ UNCHANGED <<table, lastClosed, blocks, loaded, parent, child>>
      BY <1>5, <2>3 DEF Opened, familyVars
    <3>2. "load" \in Locations
      BY DEF Locations
    <3>3. TypeOK'
      BY <1>a, <2>1, <3>1, <3>2 DEF TypeOK, Number
    <3>4. FdSet' /\ Family'
      BY <1>a, <1>b, <3>1 
    <3> QED BY <3>3, <3>4
  <2> QED BY <2>2, <2>3
<1>6. CASE BadDescriptor(t)
  BY <1>6, ErrorType DEF BadDescriptor
<1>7. CASE Seek(t)
  <2>1. table' \in [Task -> [Number -> Stream]]
    <3>1. PICK n \in Number, position \in Position : table' = [table EXCEPT ![t][n] = FileAt(position)]
      BY <1>7 DEF Seek, Number
    <3>2. FileAt(position) \in Stream
      BY Streams
    <3> QED BY <3>1, <3>2, <1>a, EntryType
  <2> QED BY <1>7, <1>a, <2>1 DEF Seek, familyVars, TypeOK, Number
<1>8. CASE Transfer(t)
  <2>1. table' \in [Task -> [Number -> Stream]]
    <3>1. PICK n \in Number, len \in 0..Size :
            /\ IsFile(table[t][n])
            /\ \/ table' = table
               \/ table' = [table EXCEPT ![t][n] = FileAt(End(table[t][n][2], len))]
      BY <1>8 DEF Transfer, Number
    <3>2. table[t][n][2] \in Position
      BY <3>1, <1>a, Streams
    <3>3. FileAt(End(table[t][n][2], len)) \in Stream
      <4>1. len \in Nat
        BY <3>1, <1>b
      <4> QED BY <3>1, <3>2, <4>1, EndIsPosition, Streams
    <3>4. CASE table' = table
      BY <3>4, <1>a
    <3>5. CASE table' = [table EXCEPT ![t][n] = FileAt(End(table[t][n][2], len))]
      BY <3>3, <3>5, <1>a, EntryType
    <3> QED BY <3>1, <3>4, <3>5
  <2>2. UNCHANGED <<lastClosed, blocks, pc, hand, fd, loaded, parent, child, raced>>
    BY <1>8 DEF Transfer, familyVars
  <2>3. TypeOK'
    BY <1>a, <2>1, <2>2 DEF TypeOK, Number
  <2>4. FdSet' /\ Family'
    BY <1>a, <1>b, <2>2
  <2> QED BY <2>3, <2>4
<1>9. CASE Close(t)
  BY <1>9, <1>a, <1>b DEF Close, Calling, familyVars, Locations, TypeOK, Number
<1>10. CASE Closing(t)
  <2>1. table' \in [Task -> [Number -> Stream]]
    BY <1>10, <1>a, Streams, EntryType DEF Closing
  <2>2. /\ lastClosed' \in Nat /\ raced' \subseteq Task /\ loaded' \subseteq Task
        /\ UNCHANGED <<blocks, hand, parent, child>>
    BY <1>10, <1>a, <1>b DEF Closing, Disturbed, Number
  <2>3. /\ fd' = [fd EXCEPT ![t] = NULL] /\ pc[t] = "closing"
        /\ pc' \in {[pc EXCEPT ![t] = "run"], [pc EXCEPT ![t] = "paused"]}
    BY <1>10 DEF Closing
  <2>4. TypeOK'
    BY <1>a, <2>1, <2>2, <2>3 DEF Locations, TypeOK, Number
  <2>5. FdSet' /\ Family'
    BY <1>a, <1>b, <2>2, <2>3
  <2> QED BY <2>4, <2>5
<1>11. CASE Exec(t)
  <2>1. PICK c \in Task :
          /\ pc[c] = "unborn" /\ pc[t] = "run"
          /\ pc' = [pc EXCEPT ![c] = "init", ![t] = "starting"]
          /\ parent' = [parent EXCEPT ![c] = t] /\ child' = [child EXCEPT ![t] = c]
    BY <1>11 DEF Exec, Calling
  <2>2. UNCHANGED <<table, lastClosed, blocks, hand, fd, loaded, raced>>
    BY <1>11 DEF Exec
  <2>3. TypeOK'
    BY <1>a, <2>1, <2>2 DEF Locations, TypeOK, Number
  <2>4. FdSet' /\ Family'
    BY <1>a, <1>b, <2>1, <2>2
  <2> QED BY <2>3, <2>4
<1>12. CASE InitKernelFd(t)
  <2>1. table' \in [Task -> [Number -> Stream]] /\ hand' \in [Task -> Stream]
    BY <1>12, <1>a, Streams DEF InitKernelFd, Number
  <2> QED BY <1>12, <1>a, <1>b, <2>1 DEF InitKernelFd, familyVars, Locations, InOpen, Disturbed, TypeOK, Number
<1>13. CASE Load(t)
  <2>1. CASE \E code : Error(code)
    BY <2>1, ErrorType
  <2>2. CASE ~\E code : Error(code)
    <3>1. fd[t] \in Number /\ table' = [table EXCEPT ![t][fd[t]] = FileAt(Size)]
      BY <1>13, <1>a, <1>b, <2>2 DEF Load, Number
    <3>2. table' \in [Task -> [Number -> Stream]]
      <4>1. FileAt(Size) \in Stream
        BY Streams
      <4> QED BY <3>1, <4>1, <1>a, EntryType
    <3>3. /\ pc[t] = "load" /\ pc' = [pc EXCEPT ![t] = "closing"]
          /\ UNCHANGED <<lastClosed, blocks, hand, fd, loaded, parent, child, raced>>
      BY <1>13, <2>2 DEF Load, familyVars
    <3>4. TypeOK'
      BY <1>a, <3>2, <3>3 DEF Locations, TypeOK, Number
    <3>5. FdSet'
      BY <1>b, <3>1, <3>3
    <3>6. Family'
      BY <1>a, <1>b, <3>3
    <3> QED BY <3>4, <3>5, <3>6
  <2> QED BY <2>1, <2>2
<1>14. CASE ExecFile(t)
  <2>1. /\ pc[t] = "starting" /\ pc' = [pc EXCEPT ![t] = "run"]
        /\ child' = [child EXCEPT ![t] = NULL]
        /\ UNCHANGED <<table, lastClosed, blocks, hand, fd, loaded, parent, raced>>
    BY <1>14 DEF ExecFile
  <2>2. TypeOK'
    BY <1>a, <2>1 DEF Locations, TypeOK, Number
  <2>3. FdSet' /\ Family'
    BY <1>a, <1>b, <2>1
  <2> QED BY <2>2, <2>3
<1>15. CASE Signal(t) \/ Uwait(t) \/ Wait(t)
  <2>1. CASE Signal(t)
    BY <2>1, <1>a, <1>b DEF Signal, Calling, familyVars, Locations, TypeOK, Number
  <2>2. CASE Uwait(t)
    BY <2>2, <1>a, <1>b DEF Uwait, Calling, familyVars, Locations, TypeOK, Number
  <2>3. CASE Wait(t)
    BY <2>3, <1>a, <1>b DEF Wait, Calling, familyVars, Locations, TypeOK, Number
  <2> QED BY <1>15, <2>1, <2>2, <2>3
<1>16. CASE Give(t)
  <2>1. table' \in [Task -> [Number -> Stream]]
    <3>1. PICK c \in Task, n \in Number : table' = [table EXCEPT ![c][0] = table[t][n]]
      BY <1>16, DescriptorAssumption DEF Give, Number
    <3>2. table[t][n] \in Stream /\ 0 \in Number
      BY <1>a, Streams
    <3>3. PICK stream \in Stream : stream = table[t][n]
      BY <3>2
    <3>4. [table EXCEPT ![c][0] = stream] \in [Task -> [Number -> Stream]]
      BY <3>2, <1>a, EntryType
    <3> QED BY <3>1, <3>3, <3>4
  <2>2. \E n \in Number : fd' = [fd EXCEPT ![t] = n]
    BY <1>16, DescriptorAssumption DEF Give, Number
  <2>3. fd' \in [Task -> Nat \cup {NULL}]
    BY <2>2, <1>a, <1>b DEF Number
  <2> QED BY <1>16, <1>a, <1>b, <2>1, <2>2, <2>3 DEF Give, Calling, familyVars, Locations, TypeOK, Number
<1>17. CASE Given(t)
  <2>1. table' \in [Task -> [Number -> Stream]]
    BY <1>17, <1>a, Streams, EntryType DEF Given
  <2> QED BY <1>17, <1>a, <1>b, <2>1 DEF Given, familyVars, Locations, TypeOK, Number
<1>18. CASE Exit(t)
  BY <1>18, <1>a, <1>b DEF Exit, Calling, familyVars, Locations, TypeOK, Number
<1>19. CASE Bury(t)
  <2>1. parent[t] \in Task
    BY <1>19, <1>a, <1>b DEF Bury
  <2>2. table' \in [Task -> [Number -> Stream]]
    BY <1>19, <2>1, GiveBackType DEF Bury
  <2> QED BY <1>19, <1>a, <1>b, <2>1, <2>2 DEF Bury, familyVars, Locations, TypeOK, Number
<1>20. CASE Reap(t)
  <2>1. parent[t] \in Task
    BY <1>20, <1>a, <1>b DEF Reap
  <2>2. table' \in [Task -> [Number -> Stream]]
    BY <1>20, <2>1, <1>a, GiveBackType DEF Reap
  <2> QED BY <1>20, <1>a, <1>b, <2>1, <2>2 DEF Reap, familyVars, Locations, TypeOK, Number
<1> QED BY <1>1, <1>2, <1>3, <1>4, <1>5, <1>6, <1>7, <1>8, <1>9, <1>10, <1>11, <1>12, <1>13,
           <1>14, <1>15, <1>16, <1>17, <1>18, <1>19, <1>20 DEF Step

LEMMA NextType == ASSUME TypeInv, [Next]_vars PROVE TypeInv'
<1>1. CASE UNCHANGED vars
  BY <1>1 DEF TypeInv, TypeOK, FdSet, Family, vars, familyVars
<1>2. CASE Next
  BY <1>2, <1>1, StepType DEF Next, Halted
<1> QED BY <1>1, <1>2

\* The types hold in every state.
LEMMA AlwaysTyped == Spec => []TypeInv
BY InitType, NextType, PTL DEF Spec

-----------------------------------------------------------------------------
(***************************************************************************)
(* OPEN.                                                                   *)
(***************************************************************************)
\* The hint is at most one past the table, so that a search ends there.
OpenInv == lastClosed <= Len /\ OpenRight

\* A step that leaves the hint and the tables of the opening tasks alone.
LEMMA QuietOpen ==
    ASSUME OpenInv, raced' = raced, lastClosed' = lastClosed,
           \A u \in Task : pc'[u] \in {"install", "opened"} =>
                /\ pc'[u] = pc[u] /\ table'[u] = table[u] /\ hand'[u] = hand[u]
    PROVE  OpenInv'
BY DEF OpenInv, OpenRight

LEMMA StepOpen == ASSUME TypeInv, OpenInv, NEW t \in Task, Step(t) PROVE OpenInv'
<1>a. /\ table \in [Task -> [Number -> Stream]] /\ lastClosed \in Nat
      /\ pc \in [Task -> Locations] /\ hand \in [Task -> Stream]
  BY DEF TypeInv, TypeOK, Number
<1>b. Boot \in Task /\ Len \in Nat \ {0}
  BY DescriptorAssumption
<1>c. ASSUME NEW code, Error(code) PROVE OpenInv'
  BY <1>c DEF Error, familyVars, OpenInv, OpenRight
<1>1. CASE Search(t)
  <2>1. CASE \E code : Error(code)
    BY <2>1, <1>c
  <2>2. CASE ~\E code : Error(code)
    <3>1. /\ pc' \in [Task -> Locations] /\ \A u \in Task \ {t} : pc'[u] = pc[u]
          /\ UNCHANGED <<table, hand>> /\ pc[t] \in InOpen
      BY <1>1, <1>a, <2>2 DEF Search, InOpen, Locations
    <3>2. raced' = IF lastClosed' = lastClosed THEN raced ELSE raced \cup Disturbed(t)
      BY <1>1, <2>2 DEF Search
    <3>3. lastClosed' <= Len
      BY <1>1, <1>a, <1>b, <2>2 DEF Search, Occupied, OpenInv
    <3>4. pc'[t] # "opened" /\ (pc'[t] = "install" => lastClosed' < Len /\ table[t][lastClosed'] = Closed)
      <4>1. pc[t] \in {"search", "searchAgain"}
        BY <1>1 DEF Search
      <4>2. CASE Occupied(t)
        BY <1>1, <1>a, <1>b, <2>2, <4>1, <4>2 DEF Search, Occupied
      <4>3. CASE ~Occupied(t) /\ lastClosed = Len
        BY <1>1, <1>a, <2>2, <4>3 DEF Search
      <4>4. CASE ~Occupied(t) /\ lastClosed # Len
        <5>1. lastClosed' = lastClosed
          BY <1>1, <2>2, <4>4 DEF Search
        <5>2. lastClosed < Len /\ table[t][lastClosed] = Closed
          BY <1>a, <1>b, <4>4 DEF Occupied, OpenInv
        <5>3. pc' = [pc EXCEPT ![t] = "install"]
          BY <1>1, <2>2, <4>4 DEF Search
        <5> QED BY <5>1, <5>2, <5>3, <1>a
      <4> QED BY <4>2, <4>3, <4>4
    <3>5. \A u \in Task \ {t} : u \notin raced' /\ pc[u] \in InOpen => u \notin raced /\ lastClosed' = lastClosed
      BY <3>2 DEF Disturbed
    <3> QED BY <3>1, <3>3, <3>4, <3>5 DEF OpenInv, OpenRight, InOpen
  <2> QED BY <2>1, <2>2
<1>2. CASE Install(t)
  <2>1. CASE lastClosed >= Len
    BY <1>2, <2>1, <1>c DEF Install
  <2>2. CASE ~(lastClosed >= Len)
    <3>1. /\ lastClosed \in Number /\ table' = [table EXCEPT ![t][lastClosed] = hand[t]]
          /\ pc' = [pc EXCEPT ![t] = "opened"] /\ UNCHANGED <<lastClosed, hand, raced>>
      BY <1>2, <1>a, <1>b, <2>2 DEF Install, Number
    <3>2. table'[t][lastClosed] = hand[t] /\ \A u \in Task \ {t} : table'[u] = table[u]
      BY <3>1, <1>a
    <3> QED BY <3>1, <3>2, <1>a, <2>2, <1>b DEF OpenInv, OpenRight
  <2> QED BY <2>1, <2>2
<1>3. CASE Opened(t)
  BY <1>3, <1>a DEF Opened, OpenInv, OpenRight
<1>4. CASE Closing(t)
  <2>1. pc[t] = "closing" /\ fd[t] \in Number /\ lastClosed' = fd[t] /\ raced' = raced \cup Disturbed(t)
    BY <1>4 DEF Closing, TypeInv, FdSet
  <2>2. \A u \in Task : pc'[u] \in {"install", "opened"} => u # t /\ pc'[u] = pc[u]
    BY <1>4, <1>a DEF Closing
  <2>3. \A u \in Task : pc'[u] \in {"install", "opened"} => u \in raced'
    BY <2>1, <2>2 DEF Disturbed, InOpen
  <2> QED BY <2>1, <2>3, <1>b DEF OpenInv, OpenRight, Number
<1>5. CASE InitKernelFd(t)
  <2>1. lastClosed' = 0 /\ raced' = raced \cup Disturbed(t) /\ pc' = [pc EXCEPT ![t] = "search"]
    BY <1>5 DEF InitKernelFd
  <2>2. \A u \in Task : pc'[u] \in {"install", "opened"} => u # t /\ pc'[u] = pc[u]
    BY <2>1, <1>a
  <2>3. \A u \in Task : pc'[u] \in {"install", "opened"} => u \in raced'
    BY <2>1, <2>2 DEF Disturbed, InOpen
  <2> QED BY <2>1, <2>3, <1>b DEF OpenInv, OpenRight
<1>6. CASE OpenNothing(t) \/ BadDescriptor(t)
  BY <1>6, <1>c DEF OpenNothing, BadDescriptor
<1>7. CASE Open(t)
  BY <1>7, <1>a, QuietOpen DEF Open
<1>8. CASE Close(t)
  BY <1>8, <1>a, QuietOpen DEF Close
<1>9. CASE Seek(t)
  BY <1>9, <1>a, QuietOpen DEF Seek, Calling
<1>10. CASE Transfer(t)
  BY <1>10, <1>a, QuietOpen DEF Transfer, Calling
<1>11. CASE Exec(t)
  BY <1>11, <1>a, QuietOpen DEF Exec
<1>12. CASE Load(t)
  <2>1. CASE \E code : Error(code)
    BY <2>1, <1>c
  <2>2. CASE ~\E code : Error(code)
    BY <1>12, <2>2, <1>a, QuietOpen DEF Load
  <2> QED BY <2>1, <2>2
<1>13. CASE ExecFile(t)
  BY <1>13, <1>a, QuietOpen DEF ExecFile, familyVars
<1>14. CASE Signal(t)
  BY <1>14, <1>a, QuietOpen DEF Signal
<1>15. CASE Uwait(t)
  BY <1>15, <1>a, QuietOpen DEF Uwait
<1>16. CASE Wait(t)
  BY <1>16, <1>a, QuietOpen DEF Wait
<1>17. CASE Give(t)
  BY <1>17, <1>a, QuietOpen DEF Give
<1>18. CASE Given(t)
  BY <1>18, <1>a, QuietOpen DEF Given
<1>19. CASE Exit(t)
  BY <1>19, <1>a, QuietOpen DEF Exit
<1>20. CASE Bury(t)
  <2>1. /\ parent[t] \in Task /\ pc[t] = "dead" /\ pc[parent[t]] = "waiting"
        /\ pc' = [pc EXCEPT ![t] = "buried", ![parent[t]] = "run"]
        /\ table' = GiveSTDIOback(parent[t], t) /\ UNCHANGED <<lastClosed, hand, raced>>
    BY <1>20, <1>a DEF Bury, TypeInv, TypeOK, Family
  <2>2. \A u \in Task \ {t, parent[t]} : table'[u] = table[u]
    BY <2>1, <1>a DEF GiveSTDIOback
  <2> QED BY <2>1, <2>2, <1>a, QuietOpen
<1>21. CASE Reap(t)
  <2>1. PICK mother \in Task : mother = parent[t]
    BY <1>21 DEF Reap, TypeInv, Family
  <2>2. CASE pc[t] = "dead" /\ pc[mother] = "waiting"
    <3>1. /\ pc' = [pc EXCEPT ![t] = "reaped", ![mother] = "run"]
          /\ table' = GiveSTDIOback(mother, t) /\ UNCHANGED <<lastClosed, hand, raced>>
      BY <1>21, <2>1, <2>2 DEF Reap
    <3>2. \A u \in Task \ {t, mother} : table'[u] = table[u]
      BY <3>1, <1>a DEF GiveSTDIOback
    <3> QED BY <3>1, <3>2, <2>2, <1>a, QuietOpen
  <2>3. CASE ~(pc[t] = "dead" /\ pc[mother] = "waiting")
    <3>1. pc' = [pc EXCEPT ![t] = "reaped"] /\ UNCHANGED <<table, lastClosed, hand, raced>>
      BY <1>21, <2>1, <2>3 DEF Reap
    <3> QED BY <3>1, <1>a, QuietOpen
  <2> QED BY <2>2, <2>3
<1> QED BY <1>1, <1>2, <1>3, <1>4, <1>5, <1>6, <1>7, <1>8, <1>9, <1>10, <1>11, <1>12, <1>13,
           <1>14, <1>15, <1>16, <1>17, <1>18, <1>19, <1>20, <1>21 DEF Step

\* An OPEN that no other task disturbs puts its stream in a free entry and returns that
\* entry's number, for any length of the table and any number of tasks.
THEOREM OpenRightCorrect == Spec => []OpenRight
<1>1. Init => OpenInv
  BY DescriptorAssumption DEF Init, OpenInv, OpenRight
<1>2. TypeInv /\ OpenInv /\ [Next]_vars => OpenInv'
  <2> SUFFICES ASSUME TypeInv, OpenInv, [Next]_vars PROVE OpenInv'
    OBVIOUS
  <2>1. CASE UNCHANGED vars
    BY <2>1 DEF vars, OpenInv, OpenRight
  <2> QED BY <2>1, StepOpen DEF Next, Halted
<1>3. OpenInv => OpenRight
  BY DEF OpenInv
<1> QED BY <1>1, <1>2, <1>3, AlwaysTyped, PTL DEF Spec

-----------------------------------------------------------------------------
(***************************************************************************)
(* Who owns a terminal stream.  The hand of a task counts as one more      *)
(* place, with the number Len, as long as OPEN has not installed it.       *)
(***************************************************************************)
Place == 0..Len

Leads(t, n, b) ==
    \/ /\ n = Len /\ hand[t] = StdIO(b)
       /\ pc[t] \in {"search", "searchAgain", "install"}
    \/ /\ n \in Number /\ table[t][n] = StdIO(b) /\ pc[t] # "reaped"
       /\ ~(pc[t] \in {"closing", "giving"} /\ fd[t] = n)

OwnInv ==
    /\ \A t, u \in Task : \A n, m \in Place : \A b \in Block :
          Leads(t, n, b) /\ Leads(u, m, b) => t = u /\ n = m
    /\ \A t \in Task : \A n \in Place : \A b \in Block : Leads(t, n, b) => b \in blocks

\* A step after which every place leads where it led before, or nowhere.
Keeps == \A u \in Task : \A n \in Place : \A b \in Block : Leads(u, n, b)' => Leads(u, n, b)

LEMMA KeptOwn == ASSUME OwnInv, blocks' = blocks, Keeps PROVE OwnInv'
BY DEF OwnInv, Keeps

\* A step that moves what one place leads to into another.
Moves(t, n, u, m) ==
    \A v \in Task : \A k \in Place : \A b \in Block : Leads(v, k, b)' =>
        IF v = u /\ k = m THEN Leads(t, n, b) ELSE Leads(v, k, b) /\ ~(v = t /\ k = n)

LEMMA MovedOwn ==
    ASSUME OwnInv, blocks' = blocks,
           NEW t \in Task, NEW n \in Place, NEW u \in Task, NEW m \in Place, Moves(t, n, u, m)
    PROVE  OwnInv'
BY DEF OwnInv, Moves

LEMMA StreamsApart ==
    /\ \A b, c : StdIO(b) = StdIO(c) => b = c
    /\ \A b : StdIO(b) # Closed /\ IsStdIO(StdIO(b)) /\ \A position : StdIO(b) # FileAt(position)
BY DEF StdIO, Closed, FileAt, IsStdIO

\* A task whose tables stay and that neither enters nor leaves the critical places.
Usual == Locations \ {"search", "searchAgain", "install", "closing", "giving", "reaped"}

LEMMA QuietOwn ==
    ASSUME OwnInv, blocks' = blocks, table' = table, hand' = hand,
           \A u \in Task : \/ pc'[u] = pc[u] /\ fd'[u] = fd[u]
                           \/ pc[u] \in Usual /\ pc'[u] \in Usual \cup {"reaped"}
    PROVE  OwnInv'
<1>1. Keeps
  BY DEF Keeps, Leads, Usual
<1> QED BY <1>1, KeptOwn

\* giveSTDIOback moves the stream 0 of a dead task to its waiting mother.
LEMMA GiveBackOwn ==
    ASSUME TypeInv, OwnInv, NEW d \in Task, NEW mother \in Task, pc[d] = "dead", pc[mother] = "waiting",
           table' = GiveSTDIOback(mother, d), blocks' = blocks, hand' = hand, fd' = fd,
           pc' \in [Task -> Locations], pc'[mother] = "run", pc'[d] \in {"buried", "reaped"},
           \A u \in Task \ {d, mother} : pc'[u] = pc[u]
    PROVE  OwnInv'
<1>a. table \in [Task -> [Number -> Stream]] /\ 0 \in Number /\ 0 \in Place /\ d # mother
  BY DescriptorAssumption DEF TypeInv, TypeOK, Number, Place
<1>1. CASE IsStdIO(table[mother][0])
  <2>1. table' = table
    BY <1>1 DEF GiveSTDIOback
  <2>2. Keeps
    BY <2>1 DEF Keeps, Leads
  <2> QED BY <2>2, KeptOwn
<1>2. CASE ~IsStdIO(table[mother][0])
  <2>1. table' = [table EXCEPT ![mother][0] = table[d][0], ![d][0] = Closed]
    BY <1>2 DEF GiveSTDIOback
  <2>2. /\ table'[mother][0] = table[d][0] /\ table'[d][0] = Closed
        /\ \A u \in Task : \A n \in Number :
              ~(u = mother /\ n = 0) /\ ~(u = d /\ n = 0) => table'[u][n] = table[u][n]
    BY <2>1, <1>a
  <2>3. ASSUME NEW v \in Task, NEW k \in Place, NEW b \in Block, Leads(v, k, b)'
        PROVE  IF v = mother /\ k = 0 THEN Leads(d, 0, b) ELSE Leads(v, k, b) /\ ~(v = d /\ k = 0)
    <3>1. CASE k = Len
      <4>1. 0 # Len /\ Len \notin Number
        BY DescriptorAssumption DEF Number
      <4> QED BY <2>3, <3>1, <4>1 DEF Leads
    <3>2. CASE k # Len
      <4>1. k \in Number /\ table'[v][k] = StdIO(b)
        BY <2>3, <3>2 DEF Leads
      <4>2. CASE v = mother /\ k = 0
        BY <4>1, <4>2, <2>2, <1>a DEF Leads
      <4>3. CASE ~(v = mother /\ k = 0)
        <5>1. ~(v = d /\ k = 0)
          BY <4>1, <2>2, StreamsApart
        <5>2. table[v][k] = StdIO(b)
          BY <4>1, <4>3, <5>1, <2>2
        <5>3. v # mother => (v = d \/ (pc'[v] = pc[v] /\ fd'[v] = fd[v]))
          OBVIOUS
        <5>4. v = mother => pc[v] \notin {"closing", "giving", "reaped"}
          OBVIOUS
        <5>5. v = d => pc[v] \notin {"closing", "giving", "reaped"}
          OBVIOUS
        <5>6. pc'[v] # "reaped" /\ ~(pc'[v] \in {"closing", "giving"} /\ fd'[v] = k)
          BY <2>3, <3>2 DEF Leads
        <5>7. Leads(v, k, b)
          BY <4>1, <5>2, <5>3, <5>4, <5>5, <5>6 DEF Leads
        <5> QED BY <4>3, <5>1, <5>7
      <4> QED BY <4>2, <4>3
    <3> QED BY <3>1, <3>2
  <2>4. Moves(d, 0, mother, 0)
    BY <2>3 DEF Moves
  <2> QED BY <2>4, <1>a, MovedOwn
<1> QED BY <1>1, <1>2

LEMMA StepOwn == ASSUME TypeInv, OwnInv, NEW t \in Task, Step(t) PROVE OwnInv'
<1>a. /\ table \in [Task -> [Number -> Stream]] /\ lastClosed \in Nat
      /\ pc \in [Task -> Locations] /\ hand \in [Task -> Stream]
      /\ fd \in [Task -> Nat \cup {NULL}]
  BY DEF TypeInv, TypeOK, Number
<1>b. Len \in Nat \ {0} /\ Len \in Place /\ 0 \in Number /\ \A n \in Number : n \in Place /\ n # Len
  BY DescriptorAssumption DEF Place, Number
<1>c. ASSUME NEW code, Error(code) PROVE OwnInv'
  BY <1>c DEF Error, OwnInv, Leads
<1>1. CASE Open(t)
  <2>1. /\ pc[t] = "run" /\ pc' = [pc EXCEPT ![t] = "search"] /\ UNCHANGED <<table, fd>>
        /\ \A u \in Task \ {t} : hand'[u] = hand[u]
    BY <1>1, <1>a DEF Open, Calling
  <2>2. ASSUME NEW u \in Task, NEW n \in Place, NEW b \in Block, Leads(u, n, b)', ~(u = t /\ n = Len)
        PROVE  Leads(u, n, b)
    BY <2>1, <2>2, <1>a, <1>b DEF Leads
  <2>3. CASE hand' = [hand EXCEPT ![t] = FileAt(0)] /\ UNCHANGED blocks
    <3>1. hand'[t] = FileAt(0)
      BY <2>3, <1>a
    <3>2. \A b : ~Leads(t, Len, b)'
      BY <3>1, <1>b, StreamsApart DEF Leads
    <3>3. Keeps
      BY <2>2, <3>2 DEF Keeps
    <3> QED BY <2>3, <3>3, KeptOwn
  <2>4. CASE \E b \in Block \ blocks : blocks' = blocks \cup {b} /\ hand' = [hand EXCEPT ![t] = StdIO(b)]
    <3>1. PICK new \in Block \ blocks : blocks' = blocks \cup {new} /\ hand' = [hand EXCEPT ![t] = StdIO(new)]
      BY <2>4
    <3>2. hand'[t] = StdIO(new)
      BY <3>1, <1>a
    <3>3. \A b : Leads(t, Len, b)' => b = new
      BY <3>2, <1>b, StreamsApart DEF Leads
    <3> QED BY <2>2, <3>1, <3>3, <1>b DEF OwnInv
  <2> QED BY <1>1, <2>3, <2>4 DEF Open
<1>2. CASE Search(t)
  <2>1. CASE \E code : Error(code)
    BY <2>1, <1>c
  <2>2. CASE ~\E code : Error(code)
    <3>1. /\ pc[t] \in {"search", "searchAgain"} /\ UNCHANGED <<table, hand, blocks, fd>>
          /\ pc' \in {pc, [pc EXCEPT ![t] = "searchAgain"], [pc EXCEPT ![t] = "install"]}
      BY <1>2, <1>a, <1>b, <2>2 DEF Search, Occupied
    <3>2. Keeps
      BY <3>1, <1>a DEF Keeps, Leads
    <3> QED BY <3>1, <3>2, KeptOwn
  <2> QED BY <2>1, <2>2
<1>3. CASE Install(t)
  <2>1. CASE lastClosed >= Len
    BY <1>3, <2>1, <1>c DEF Install
  <2>2. CASE ~(lastClosed >= Len)
    <3>1. PICK n \in Number : n = lastClosed
      BY <1>a, <1>b, <2>2 DEF Number
    <3>2. /\ pc[t] = "install" /\ pc' = [pc EXCEPT ![t] = "opened"] /\ UNCHANGED <<hand, blocks, fd>>
          /\ table' = [table EXCEPT ![t][n] = hand[t]]
      BY <1>3, <2>2, <3>1 DEF Install
    <3>3. /\ table'[t][n] = hand[t]
          /\ \A u \in Task : \A m \in Number : ~(u = t /\ m = n) => table'[u][m] = table[u][m]
      BY <3>2, <1>a
    <3>4. pc'[t] = "opened" /\ \A u \in Task \ {t} : pc'[u] = pc[u]
      BY <3>2, <1>a
    <3>5. Moves(t, Len, t, n)
      BY <3>2, <3>3, <3>4, <1>b DEF Moves, Leads
    <3> QED BY <3>2, <3>5, <1>b, MovedOwn
  <2> QED BY <2>1, <2>2
<1>4. CASE Opened(t)
  <2>1. /\ pc[t] = "opened" /\ pc'[t] \in {"run", "load"} /\ UNCHANGED <<table, blocks>>
        /\ \A u \in Task \ {t} : pc'[u] = pc[u] /\ hand'[u] = hand[u] /\ fd'[u] = fd[u]
    BY <1>4, <1>a DEF Opened
  <2>2. Keeps
    BY <2>1 DEF Keeps, Leads
  <2> QED BY <2>1, <2>2, KeptOwn
<1>5. CASE Close(t)
  <2>1. PICK n \in Number :
          /\ blocks' = IF IsStdIO(table[t][n]) THEN blocks \ {table[t][n][2]} ELSE blocks
          /\ fd' = [fd EXCEPT ![t] = n]
    BY <1>5 DEF Close, Number
  <2>2. pc[t] = "run" /\ pc' = [pc EXCEPT ![t] = "closing"] /\ UNCHANGED <<table, hand>>
    BY <1>5 DEF Close, Calling
  <2>3. /\ pc'[t] = "closing" /\ fd'[t] = n
        /\ \A u \in Task \ {t} : pc'[u] = pc[u] /\ fd'[u] = fd[u]
    BY <2>1, <2>2, <1>a
  <2>4. Keeps
    BY <2>2, <2>3 DEF Keeps, Leads
  <2>5. \A b : ~Leads(t, n, b)'
    BY <2>2, <2>3, <1>b DEF Leads
  <2>6. ASSUME NEW b \in Block, b \in blocks, b \notin blocks' PROVE Leads(t, n, b)
    <3>1. IsStdIO(table[t][n]) /\ b = table[t][n][2]
      BY <2>1, <2>6
    <3>2. table[t][n] = StdIO(b)
      BY <3>1, <1>a DEF IsStdIO, StdIO, Stream, Closed, FileAt
    <3> QED BY <2>2, <3>2, <1>b DEF Leads
  <2>7. ASSUME NEW u \in Task, NEW m \in Place, NEW b \in Block, Leads(u, m, b)' PROVE b \in blocks'
    <3>1. Leads(u, m, b) /\ b \in blocks
      BY <2>4, <2>7 DEF OwnInv, Keeps
    <3>2. ~(u = t /\ m = n)
      BY <2>5, <2>7
    <3>3. n \in Place
      BY <1>b
    <3>4. ~Leads(t, n, b)
      BY <3>1, <3>2, <3>3 DEF OwnInv
    <3> QED BY <2>6, <3>1, <3>4
  <2> QED BY <2>4, <2>7 DEF OwnInv, Keeps
<1>6. CASE Closing(t) \/ Given(t)
  <2>1. PICK n \in Number : n = fd[t]
    BY <1>6 DEF Closing, Given, TypeInv, FdSet
  <2>2. /\ table' = [table EXCEPT ![t][n] = Closed] /\ UNCHANGED <<hand, blocks>>
        /\ pc[t] \in {"closing", "giving"} /\ pc'[t] \in {"run", "paused"}
        /\ \A u \in Task \ {t} : pc'[u] = pc[u] /\ fd'[u] = fd[u]
    BY <1>6, <2>1, <1>a DEF Closing, Given
  <2>3. /\ table'[t][n] = Closed
        /\ \A u \in Task : \A m \in Number : ~(u = t /\ m = n) => table'[u][m] = table[u][m]
    BY <2>2, <1>a
  <2>4. Keeps
    BY <2>1, <2>2, <2>3, StreamsApart DEF Keeps, Leads
  <2> QED BY <2>2, <2>4, KeptOwn
<1>7. CASE Load(t)
  <2>1. CASE \E code : Error(code)
    BY <2>1, <1>c
  <2>2. CASE ~\E code : Error(code)
    <3>1. PICK n \in Number : n = fd[t]
      BY <1>7, <1>a, <1>b, <2>2 DEF Load, Number, TypeInv, FdSet
    <3>2. /\ table' = [table EXCEPT ![t][n] = FileAt(Size)] /\ UNCHANGED <<hand, blocks, fd>>
          /\ pc[t] = "load" /\ pc'[t] = "closing" /\ \A u \in Task \ {t} : pc'[u] = pc[u]
      BY <1>7, <1>a, <2>2, <3>1 DEF Load
    <3>3. /\ table'[t][n] = FileAt(Size)
          /\ \A u \in Task : \A m \in Number : ~(u = t /\ m = n) => table'[u][m] = table[u][m]
      BY <3>2, <1>a
    <3>4. Keeps
      BY <3>2, <3>3, StreamsApart DEF Keeps, Leads
    <3> QED BY <3>2, <3>4, KeptOwn
  <2> QED BY <2>1, <2>2
<1>8. CASE InitKernelFd(t)
  <2>1. /\ table'[t] = [n \in Number |-> Closed] /\ hand'[t] = FileAt(0) /\ pc[t] = "init"
        /\ UNCHANGED <<blocks, fd>>
        /\ \A u \in Task \ {t} : table'[u] = table[u] /\ pc'[u] = pc[u] /\ hand'[u] = hand[u]
    BY <1>8, <1>a DEF InitKernelFd, Number
  <2>2. Keeps
    BY <2>1, StreamsApart DEF Keeps, Leads
  <2> QED BY <2>1, <2>2, KeptOwn
<1>9. CASE Seek(t) \/ Transfer(t)
  <2>1. PICK n \in Number : table' = table \/ \E position : table' = [table EXCEPT ![t][n] = FileAt(position)]
    BY <1>9 DEF Seek, Transfer, Number
  <2>2. UNCHANGED <<hand, blocks, fd, pc>>
    BY <1>9 DEF Seek, Transfer
  <2>3. CASE table' = table
    <3>1. Keeps
      BY <2>2, <2>3 DEF Keeps, Leads
    <3> QED BY <2>2, <3>1, KeptOwn
  <2>4. CASE \E position : table' = [table EXCEPT ![t][n] = FileAt(position)]
    <3>1. /\ \E position : table'[t][n] = FileAt(position)
          /\ \A u \in Task : \A m \in Number : ~(u = t /\ m = n) => table'[u][m] = table[u][m]
      BY <2>4, <1>a
    <3>2. Keeps
      BY <2>2, <3>1, StreamsApart DEF Keeps, Leads
    <3> QED BY <2>2, <3>2, KeptOwn
  <2> QED BY <2>1, <2>3, <2>4
<1>10. CASE Give(t)
  <2>1. PICK c \in Task, n \in Number :
          /\ pc[c] = "paused" /\ table' = [table EXCEPT ![c][0] = table[t][n]]
          /\ fd' = [fd EXCEPT ![t] = n]
    BY <1>10, DescriptorAssumption DEF Give, Number
  <2>2. pc[t] = "run" /\ pc' = [pc EXCEPT ![t] = "giving"] /\ UNCHANGED <<hand, blocks>>
    BY <1>10 DEF Give, Calling
  <2>3. /\ table'[c][0] = table[t][n] /\ c # t
        /\ \A u \in Task : \A m \in Number : ~(u = c /\ m = 0) => table'[u][m] = table[u][m]
    BY <2>1, <2>2, <1>a, <1>b
  <2>4. /\ pc'[t] = "giving" /\ fd'[t] = n
        /\ \A u \in Task \ {t} : pc'[u] = pc[u] /\ fd'[u] = fd[u]
    BY <2>1, <2>2, <1>a
  <2>5. Moves(t, n, c, 0)
    BY <2>1, <2>2, <2>3, <2>4, <1>b DEF Moves, Leads
  <2> QED BY <2>2, <2>5, <1>b, MovedOwn
<1>11. CASE OpenNothing(t) \/ BadDescriptor(t)
  BY <1>11, <1>c DEF OpenNothing, BadDescriptor
<1>12. CASE Exec(t)
  BY <1>12, <1>a, QuietOwn DEF Exec, Calling, Usual, Locations, InOpen
<1>13. CASE ExecFile(t)
  BY <1>13, <1>a, QuietOwn DEF ExecFile, Usual, Locations, InOpen
<1>14. CASE Signal(t)
  BY <1>14, <1>a, QuietOwn DEF Signal, Usual, Locations, InOpen
<1>15. CASE Uwait(t)
  BY <1>15, <1>a, QuietOwn DEF Uwait, Calling, Usual, Locations, InOpen
<1>16. CASE Wait(t)
  BY <1>16, <1>a, QuietOwn DEF Wait, Calling, Usual, Locations, InOpen
<1>17. CASE Exit(t)
  BY <1>17, <1>a, QuietOwn DEF Exit, Calling, Usual, Locations, InOpen
<1>18. CASE Bury(t)
  <2>1. PICK mother \in Task : mother = parent[t]
    BY <1>18, DescriptorAssumption DEF Bury, TypeInv, Family
  <2>2. /\ pc[t] = "dead" /\ pc[mother] = "waiting" /\ table' = GiveSTDIOback(mother, t)
        /\ pc' = [pc EXCEPT ![t] = "buried", ![mother] = "run"] /\ UNCHANGED <<blocks, hand, fd>>
    BY <1>18, <2>1 DEF Bury
  <2>3. /\ pc' \in [Task -> Locations] /\ pc'[mother] = "run" /\ pc'[t] = "buried"
        /\ \A u \in Task \ {t, mother} : pc'[u] = pc[u]
    BY <2>2, <1>a DEF Locations
  <2> QED BY <2>2, <2>3, GiveBackOwn
<1>19. CASE Reap(t)
  <2>1. PICK mother \in Task : mother = parent[t]
    BY <1>19, DescriptorAssumption DEF Reap, TypeInv, Family
  <2>2. pc[t] \in {"dead", "buried"} /\ UNCHANGED <<blocks, hand, fd>>
    BY <1>19 DEF Reap
  <2>3. CASE pc[t] = "dead" /\ pc[mother] = "waiting"
    <3>1. /\ table' = GiveSTDIOback(mother, t)
          /\ pc' = [pc EXCEPT ![t] = "reaped", ![mother] = "run"]
      BY <1>19, <2>1, <2>3 DEF Reap
    <3>2. /\ pc' \in [Task -> Locations] /\ pc'[mother] = "run" /\ pc'[t] = "reaped"
          /\ \A u \in Task \ {t, mother} : pc'[u] = pc[u]
      BY <2>3, <3>1, <1>a DEF Locations
    <3> QED BY <2>2, <2>3, <3>1, <3>2, GiveBackOwn
  <2>4. CASE ~(pc[t] = "dead" /\ pc[mother] = "waiting")
    <3>1. pc' = [pc EXCEPT ![t] = "reaped"] /\ table' = table
      BY <1>19, <2>1, <2>4 DEF Reap
    <3> QED BY <2>2, <3>1, <1>a, QuietOwn DEF Usual, Locations, InOpen
  <2> QED BY <2>3, <2>4
<1> QED BY <1>1, <1>2, <1>3, <1>4, <1>5, <1>6, <1>7, <1>8, <1>9, <1>10, <1>11, <1>12, <1>13,
           <1>14, <1>15, <1>16, <1>17, <1>18, <1>19 DEF Step

\* One descriptor at most leads to a block, and only to one in use.
LEMMA OwnOneOwner == OwnInv => OneOwner
<1> SUFFICES ASSUME OwnInv, NEW b \in Block
    PROVE  Cardinality(Owners(b)) <= 1 /\ (Owners(b) # {} => b \in blocks)
  BY DEF OneOwner
<1>1. \A p \in Owners(b) :
        /\ p[1] \in Task /\ p[2] \in Place /\ p = <<p[1], p[2]>> /\ Leads(p[1], p[2], b)
  BY DescriptorAssumption DEF Owners, Leads, Number, Place
<1>2. \A p, q \in Owners(b) : p = q
  <2> SUFFICES ASSUME NEW p \in Owners(b), NEW q \in Owners(b) PROVE p = q
    OBVIOUS
  <2>1. p[1] = q[1] /\ p[2] = q[2]
    BY <1>1 DEF OwnInv
  <2>2. p = <<p[1], p[2]>> /\ q = <<q[1], q[2]>>
    BY <1>1
  <2> QED BY <2>1, <2>2
<1>3. CASE Owners(b) = {}
  BY <1>3, FS_EmptySet
<1>4. CASE Owners(b) # {}
  <2>1. PICK p \in Owners(b) : TRUE
    BY <1>4
  <2>2. Owners(b) = {p}
    BY <1>2, <2>1
  <2>3. Cardinality({p}) = 1
    BY FS_Singleton
  <2>4. b \in blocks
    BY <1>1, <2>1 DEF OwnInv
  <2> QED BY <2>2, <2>3, <2>4
<1> QED BY <1>3, <1>4

\* No two descriptors lead to the same stdIO and none to one that was freed, through
\* every OPEN, CLOSE, BINDR and death, for any number of tasks, blocks and entries.
THEOREM OneOwnerCorrect == Spec => []OneOwner
<1>1. Init => OwnInv
  <2> SUFFICES ASSUME Init PROVE OwnInv
    OBVIOUS
  <2>1. /\ \A t \in Task : hand[t] = Closed
        /\ \A t \in Task : \A n \in Number : table[t][n] = Closed
    BY DEF Init, Number
  <2>2. \A t \in Task : \A n \in Place : \A b \in Block : ~Leads(t, n, b)
    BY <2>1, StreamsApart DEF Leads
  <2> QED BY <2>2 DEF OwnInv
<1>2. TypeInv /\ OwnInv /\ [Next]_vars => OwnInv'
  <2> SUFFICES ASSUME TypeInv, OwnInv, [Next]_vars PROVE OwnInv'
    OBVIOUS
  <2>1. CASE UNCHANGED vars
    BY <2>1 DEF vars, OwnInv, Leads
  <2> QED BY <2>1, StepOwn DEF Next, Halted
<1> QED BY <1>1, <1>2, OwnOneOwner, AlwaysTyped, PTL DEF Spec

-----------------------------------------------------------------------------
(***************************************************************************)
(* No terminal stream is lost.                                             *)
(***************************************************************************)
\* A task has a stream in its hand only inside OPEN, it has put it in its table before
\* OPEN returns, and the table of a task that has not begun is empty.
HandInv ==
    \A t \in Task :
        /\ pc[t] \notin InOpen => hand[t] = Closed
        /\ pc[t] = "opened" => \E n \in Number : table[t][n] = hand[t]
        /\ pc[t] \in {"unborn", "init"} => \A n \in Number : table[t][n] = Closed

\* A step in which every task stays where it is, or moves outside of OPEN.
LEMMA QuietHand ==
    ASSUME HandInv, hand' = hand,
           \A u \in Task : \/ pc'[u] = pc[u] /\ table'[u] = table[u]
                           \/ pc[u] \notin InOpen /\ pc'[u] \notin InOpen \cup {"unborn", "init"}
    PROVE  HandInv'
BY DEF HandInv, InOpen

LEMMA StepHand == ASSUME TypeInv, HandInv, NEW t \in Task, Step(t) PROVE HandInv'
<1>a. /\ table \in [Task -> [Number -> Stream]] /\ lastClosed \in Nat
      /\ pc \in [Task -> Locations] /\ hand \in [Task -> Stream]
      /\ Len \in Nat \ {0} /\ Boot \in Task
  BY DescriptorAssumption DEF TypeInv, TypeOK, Number
<1>c. ASSUME NEW code, Error(code) PROVE HandInv'
  BY <1>c DEF Error, HandInv
<1>1. CASE Open(t)
  <2>1. /\ pc[t] = "run" /\ pc' = [pc EXCEPT ![t] = "search"] /\ UNCHANGED table
        /\ \A u \in Task \ {t} : hand'[u] = hand[u]
    BY <1>1, <1>a DEF Open, Calling
  <2> QED BY <2>1, <1>a DEF HandInv, InOpen
<1>2. CASE Search(t)
  <2>1. CASE \E code : Error(code)
    BY <2>1, <1>c
  <2>2. CASE ~\E code : Error(code)
    <3>1. /\ pc[t] \in {"search", "searchAgain"} /\ UNCHANGED <<table, hand>>
          /\ pc' \in {pc, [pc EXCEPT ![t] = "searchAgain"], [pc EXCEPT ![t] = "install"]}
      BY <1>2, <1>a, <2>2 DEF Search, Occupied
    <3> QED BY <3>1, <1>a DEF HandInv, InOpen
  <2> QED BY <2>1, <2>2
<1>3. CASE Install(t)
  <2>1. CASE lastClosed >= Len
    BY <1>3, <2>1, <1>c DEF Install
  <2>2. CASE ~(lastClosed >= Len)
    <3>1. PICK n \in Number : n = lastClosed
      BY <1>a, <2>2 DEF Number
    <3>2. /\ pc[t] = "install" /\ pc' = [pc EXCEPT ![t] = "opened"] /\ UNCHANGED hand
          /\ table' = [table EXCEPT ![t][n] = hand[t]]
      BY <1>3, <2>2, <3>1 DEF Install
    <3>3. table'[t][n] = hand[t] /\ \A u \in Task \ {t} : table'[u] = table[u]
      BY <3>2, <1>a
    <3> QED BY <3>2, <3>3, <1>a DEF HandInv, InOpen
  <2> QED BY <2>1, <2>2
<1>4. CASE Opened(t)
  <2>1. /\ pc'[t] \in {"run", "load"} /\ hand'[t] = Closed /\ UNCHANGED table
        /\ \A u \in Task \ {t} : pc'[u] = pc[u] /\ hand'[u] = hand[u]
    BY <1>4, <1>a DEF Opened
  <2> QED BY <2>1 DEF HandInv, InOpen
<1>5. CASE InitKernelFd(t)
  <2>1. /\ pc'[t] = "search" /\ \A u \in Task \ {t} : pc'[u] = pc[u] /\ hand'[u] = hand[u]
        /\ \A u \in Task \ {t} : table'[u] = table[u]
    BY <1>5, <1>a DEF InitKernelFd
  <2> QED BY <2>1 DEF HandInv, InOpen
<1>6. CASE Exec(t)
  <2>1. PICK c \in Task : pc[c] = "unborn" /\ pc' = [pc EXCEPT ![c] = "init", ![t] = "starting"]
    BY <1>6 DEF Exec
  <2>2. pc[t] = "run" /\ UNCHANGED <<table, hand>>
    BY <1>6 DEF Exec, Calling
  <2> QED BY <2>1, <2>2, <1>a DEF HandInv, InOpen
<1>7. CASE OpenNothing(t) \/ BadDescriptor(t)
  BY <1>7, <1>c DEF OpenNothing, BadDescriptor
<1>8. CASE Close(t)
  BY <1>8, <1>a, QuietHand DEF Close, Calling, InOpen
<1>9. CASE Seek(t)
  <2>1. pc[t] = "run" /\ UNCHANGED <<pc, hand>> /\ \A u \in Task \ {t} : table'[u] = table[u]
    BY <1>9, <1>a DEF Seek, Calling
  <2> QED BY <2>1, QuietHand DEF InOpen
<1>10. CASE Transfer(t)
  <2>1. pc[t] = "run" /\ UNCHANGED <<pc, hand>> /\ \A u \in Task \ {t} : table'[u] = table[u]
    BY <1>10, <1>a DEF Transfer, Calling
  <2> QED BY <2>1, QuietHand DEF InOpen
<1>11. CASE Closing(t) \/ Given(t)
  <2>1. /\ pc[t] \in {"closing", "giving"} /\ pc'[t] \in {"run", "paused"} /\ UNCHANGED hand
        /\ \A u \in Task \ {t} : table'[u] = table[u] /\ pc'[u] = pc[u]
    BY <1>11, <1>a DEF Closing, Given
  <2> QED BY <2>1, QuietHand DEF InOpen
<1>12. CASE Load(t)
  <2>1. CASE \E code : Error(code)
    BY <2>1, <1>c
  <2>2. CASE ~\E code : Error(code)
    <3>1. /\ pc[t] = "load" /\ pc'[t] = "closing" /\ UNCHANGED hand
          /\ \A u \in Task \ {t} : table'[u] = table[u] /\ pc'[u] = pc[u]
      BY <1>12, <1>a, <2>2 DEF Load
    <3> QED BY <3>1, QuietHand DEF InOpen
  <2> QED BY <2>1, <2>2
<1>13. CASE ExecFile(t)
  BY <1>13, <1>a, QuietHand DEF ExecFile, InOpen
<1>14. CASE Signal(t)
  BY <1>14, <1>a, QuietHand DEF Signal, InOpen
<1>15. CASE Uwait(t)
  BY <1>15, <1>a, QuietHand DEF Uwait, Calling, InOpen
<1>16. CASE Wait(t)
  BY <1>16, <1>a, QuietHand DEF Wait, Calling, InOpen
<1>17. CASE Exit(t)
  BY <1>17, <1>a, QuietHand DEF Exit, Calling, InOpen
<1>18. CASE Give(t)
  <2>1. PICK c \in Task : pc[c] = "paused" /\ \A u \in Task \ {c} : table'[u] = table[u]
    BY <1>18, <1>a DEF Give
  <2>2. pc[t] = "run" /\ pc' = [pc EXCEPT ![t] = "giving"] /\ UNCHANGED hand
    BY <1>18 DEF Give, Calling
  <2> QED BY <2>1, <2>2, <1>a, QuietHand DEF InOpen
<1>19. CASE Bury(t)
  <2>1. PICK mother \in Task : mother = parent[t]
    BY <1>19, DescriptorAssumption DEF Bury, TypeInv, Family
  <2>2. /\ pc[t] = "dead" /\ pc[mother] = "waiting" /\ table' = GiveSTDIOback(mother, t)
        /\ pc' = [pc EXCEPT ![t] = "buried", ![mother] = "run"] /\ UNCHANGED hand
    BY <1>19, <2>1 DEF Bury
  <2>3. \A u \in Task \ {t, mother} : table'[u] = table[u] /\ pc'[u] = pc[u]
    BY <2>2, <1>a DEF GiveSTDIOback
  <2> QED BY <2>2, <2>3, <1>a, QuietHand DEF InOpen
<1>20. CASE Reap(t)
  <2>1. PICK mother \in Task : mother = parent[t]
    BY <1>20, DescriptorAssumption DEF Reap, TypeInv, Family
  <2>2. pc[t] \in {"dead", "buried"} /\ UNCHANGED hand
    BY <1>20 DEF Reap
  <2>3. CASE pc[t] = "dead" /\ pc[mother] = "waiting"
    <3>1. /\ table' = GiveSTDIOback(mother, t)
          /\ pc' = [pc EXCEPT ![t] = "reaped", ![mother] = "run"]
      BY <1>20, <2>1, <2>3 DEF Reap
    <3>2. \A u \in Task \ {t, mother} : table'[u] = table[u] /\ pc'[u] = pc[u]
      BY <3>1, <1>a DEF GiveSTDIOback
    <3> QED BY <2>2, <2>3, <3>1, <3>2, <1>a, QuietHand DEF InOpen
  <2>4. CASE ~(pc[t] = "dead" /\ pc[mother] = "waiting")
    <3>1. pc' = [pc EXCEPT ![t] = "reaped"] /\ table' = table
      BY <1>20, <2>1, <2>4 DEF Reap
    <3> QED BY <2>2, <3>1, <1>a, QuietHand DEF InOpen
  <2> QED BY <2>3, <2>4
<1> QED BY <1>1, <1>2, <1>3, <1>4, <1>5, <1>6, <1>7, <1>8, <1>9, <1>10, <1>11, <1>12, <1>13,
           <1>14, <1>15, <1>16, <1>17, <1>18, <1>19, <1>20 DEF Step

\* What Owners says of one entry.
Owns(t, n, b) ==
    /\ table[t][n] = StdIO(b) /\ pc[t] # "reaped"
    /\ ~(pc[t] \in {"closing", "giving"} /\ fd[t] = n)

InTable(b) == \E t \in Task : \E n \in Number : Owns(t, n, b)
InHand(b) == \E t \in Task : hand[t] = StdIO(b)

LEMMA HeldSomewhere ==
    ASSUME NEW b
    PROVE  /\ Held(b) <=> InTable(b) \/ InHand(b)
           /\ Held(b)' <=> InTable(b)' \/ InHand(b)'
<1>1. ASSUME NEW t \in Task, NEW n \in Number
      PROVE  /\ <<t, n>> \in Owners(b) <=> Owns(t, n, b)
             /\ <<t, n>> \in Owners(b)' <=> Owns(t, n, b)'
  BY DEF Owners, Owns, Number
<1>2. ASSUME NEW S \in SUBSET (Task \X Number), S # {}
      PROVE  \E t \in Task : \E n \in Number : <<t, n>> \in S
  <2>1. PICK p \in S : p \in Task \X Number
    BY <1>2
  <2>2. p = <<p[1], p[2]>> /\ p[1] \in Task /\ p[2] \in Number
    BY <2>1
  <2> QED BY <2>1, <2>2
<1>3. Owners(b) \in SUBSET (Task \X Number) /\ Owners(b)' \in SUBSET (Task \X Number)
  BY DEF Owners, Number
<1>4. Owners(b) # {} <=> InTable(b)
  BY <1>1, <1>2, <1>3 DEF InTable
<1>5. Owners(b)' # {} <=> InTable(b)'
  BY <1>1, <1>2, <1>3 DEF InTable
<1> QED BY <1>4, <1>5 DEF Held, InHand

\* b is as much in somebody's table or hand after the step as before it.
KeepsHeld(b) == InTable(b) \/ InHand(b) => InTable(b)' \/ InHand(b)'

\* A step that takes no entry away from its owner.
LEMMA QuietHeld ==
    ASSUME NEW b, hand' = hand,
           \A u \in Task : \A n \in Number : Owns(u, n, b) => Owns(u, n, b)'
    PROVE  KeepsHeld(b)
BY DEF KeepsHeld, InTable, InHand

\* Where a task that keeps its table owns all that it has there.
Keeping == Locations \ {"closing", "giving", "reaped"}

LEMMA QuietHeldTasks ==
    ASSUME NEW b, hand' = hand, table' = table,
           \A u \in Task : \/ pc'[u] = pc[u] /\ fd'[u] = fd[u]
                           \/ pc'[u] \in Keeping
    PROVE  KeepsHeld(b)
<1>1. \A u \in Task : \A n \in Number : Owns(u, n, b) => Owns(u, n, b)'
  BY DEF Owns, Keeping
<1> QED BY <1>1, QuietHeld

\* giveSTDIOback moves what it clears.
LEMMA MovedBack ==
    ASSUME NEW tables \in [Task -> [Number -> Stream]],
           NEW d \in Task, NEW mother \in Task, d # mother
    PROVE  LET moved == [tables EXCEPT ![mother][0] = tables[d][0], ![d][0] = Closed]
           IN  /\ moved[mother][0] = tables[d][0]
               /\ \A u \in Task : \A n \in Number :
                     ~(u = mother /\ n = 0) /\ ~(u = d /\ n = 0) => moved[u][n] = tables[u][n]
<1>1. 0 \in Number
  BY Streams
<1> QED BY <1>1

LEMMA BuryHeld ==
    ASSUME TypeInv, NEW b, NEW d \in Task, NEW mother \in Task, pc[d] = "dead", pc[mother] = "waiting",
           table' = GiveSTDIOback(mother, d), hand' = hand, fd' = fd,
           pc'[mother] = "run", pc'[d] = "buried", \A u \in Task \ {d, mother} : pc'[u] = pc[u]
    PROVE  KeepsHeld(b)
<1>a. table \in [Task -> [Number -> Stream]] /\ 0 \in Number /\ d # mother
  BY Streams DEF TypeInv, TypeOK, Number
<1>1. CASE IsStdIO(table[mother][0])
  <2>1. table' = table
    BY <1>1 DEF GiveSTDIOback
  <2>2. \A u \in Task : \A n \in Number : Owns(u, n, b) => Owns(u, n, b)'
    BY <2>1 DEF Owns
  <2> QED BY <2>2, QuietHeld
<1>2. CASE ~IsStdIO(table[mother][0])
  <2>1. table' = [table EXCEPT ![mother][0] = table[d][0], ![d][0] = Closed]
    BY <1>2 DEF GiveSTDIOback
  <2>2. /\ table'[mother][0] = table[d][0]
        /\ \A u \in Task : \A n \in Number :
              ~(u = mother /\ n = 0) /\ ~(u = d /\ n = 0) => table'[u][n] = table[u][n]
    BY <2>1, <1>a, MovedBack
  <2>3. ASSUME NEW u \in Task, NEW n \in Number, Owns(u, n, b)
        PROVE  IF u = d /\ n = 0 THEN Owns(mother, 0, b)' ELSE Owns(u, n, b)'
    <3>1. CASE u = d /\ n = 0
      BY <2>3, <3>1, <2>2 DEF Owns
    <3>2. CASE ~(u = d /\ n = 0)
      <4>1. ~(u = mother /\ n = 0)
        BY <1>2, <2>3, StreamsApart DEF Owns
      <4>2. table'[u][n] = StdIO(b)
        BY <2>2, <2>3, <3>2, <4>1 DEF Owns
      <4>3. u = d \/ u = mother \/ pc'[u] = pc[u]
        OBVIOUS
      <4> QED BY <2>3, <3>2, <4>2, <4>3 DEF Owns
    <3> QED BY <3>1, <3>2
  <2>4. InTable(b) => InTable(b)'
    BY <2>3, <1>a DEF InTable
  <2> QED BY <2>4 DEF KeepsHeld, InHand
<1> QED BY <1>1, <1>2

\* What NoStreamLost allows to be lost.
MayLose(b) ==
    \/ \E t \in raced : pc[t] = "install"
    \/ \E d \in Task : pc[d] # "reaped" /\ pc'[d] = "reaped" /\ ~Inherited(d, b)

LEMMA StepHeld ==
    ASSUME TypeInv, OpenInv, HandInv, NEW t \in Task, Step(t), NEW b \in blocks, b \in blocks',
           ~MayLose(b)
    PROVE  KeepsHeld(b)
<1>a. /\ table \in [Task -> [Number -> Stream]] /\ lastClosed \in Nat
      /\ pc \in [Task -> Locations] /\ hand \in [Task -> Stream]
      /\ fd \in [Task -> Nat \cup {NULL}]
      /\ Len \in Nat \ {0} /\ 0 \in Number
  BY DescriptorAssumption, Streams DEF TypeInv, TypeOK, Number
<1>c. ASSUME NEW code, Error(code) PROVE KeepsHeld(b)
  BY <1>c DEF Error, KeepsHeld, InTable, InHand, Owns
<1>1. CASE Open(t)
  <2>1. /\ pc[t] = "run" /\ pc' = [pc EXCEPT ![t] = "search"] /\ UNCHANGED <<table, fd>>
        /\ \A u \in Task \ {t} : hand'[u] = hand[u]
    BY <1>1, <1>a DEF Open, Calling
  <2>2. hand[t] = Closed
    BY <2>1 DEF HandInv, InOpen
  <2>3. InHand(b) => InHand(b)'
    BY <2>1, <2>2, StreamsApart DEF InHand
  <2>4. \A u \in Task : \A n \in Number : Owns(u, n, b) => Owns(u, n, b)'
    BY <2>1, <1>a DEF Owns
  <2> QED BY <2>3, <2>4 DEF KeepsHeld, InTable
<1>2. CASE Search(t)
  <2>1. CASE \E code : Error(code)
    BY <2>1, <1>c
  <2>2. CASE ~\E code : Error(code)
    <3>1. /\ pc[t] \in {"search", "searchAgain"} /\ UNCHANGED <<table, hand, fd>>
          /\ pc' \in {pc, [pc EXCEPT ![t] = "searchAgain"], [pc EXCEPT ![t] = "install"]}
      BY <1>2, <1>a, <2>2 DEF Search, Occupied
    <3>2. \A u \in Task : \A n \in Number : Owns(u, n, b) => Owns(u, n, b)'
      BY <3>1, <1>a DEF Owns
    <3> QED BY <3>1, <3>2, QuietHeld
  <2> QED BY <2>1, <2>2
<1>3. CASE Install(t)
  <2>1. CASE lastClosed >= Len
    BY <1>3, <2>1, <1>c DEF Install
  <2>2. CASE ~(lastClosed >= Len)
    <3>1. PICK n \in Number : n = lastClosed
      BY <1>a, <2>2 DEF Number
    <3>2. /\ pc[t] = "install" /\ pc' = [pc EXCEPT ![t] = "opened"] /\ UNCHANGED <<hand, fd>>
          /\ table' = [table EXCEPT ![t][n] = hand[t]]
      BY <1>3, <2>2, <3>1 DEF Install
    <3>3. t \notin raced
      BY <3>2 DEF MayLose
    <3>4. table[t][n] = Closed
      BY <3>1, <3>2, <3>3 DEF OpenInv, OpenRight
    <3>5. \A u \in Task : \A m \in Number : ~(u = t /\ m = n) => table'[u][m] = table[u][m]
      BY <3>2, <1>a
    <3>6. pc'[t] = "opened" /\ \A u \in Task \ {t} : pc'[u] = pc[u]
      BY <3>2, <1>a
    <3>7. ASSUME NEW u \in Task, NEW m \in Number, Owns(u, m, b) PROVE Owns(u, m, b)'
      <4>1. ~(u = t /\ m = n)
        BY <3>4, <3>7, StreamsApart DEF Owns
      <4> QED BY <4>1, <3>2, <3>5, <3>6, <3>7 DEF Owns
    <3> QED BY <3>2, <3>7, QuietHeld
  <2> QED BY <2>1, <2>2
<1>4. CASE Opened(t)
  <2>1. /\ pc[t] = "opened" /\ pc'[t] \in {"run", "load"} /\ UNCHANGED table
        /\ \A u \in Task \ {t} : pc'[u] = pc[u] /\ hand'[u] = hand[u] /\ fd'[u] = fd[u]
    BY <1>4, <1>a DEF Opened
  <2>2. \A u \in Task : \A n \in Number : Owns(u, n, b) => Owns(u, n, b)'
    BY <2>1 DEF Owns
  <2>3. PICK n \in Number : table[t][n] = hand[t]
    BY <2>1 DEF HandInv
  <2>4. hand[t] = StdIO(b) => Owns(t, n, b)'
    BY <2>1, <2>3 DEF Owns
  <2>5. InHand(b) => InHand(b)' \/ InTable(b)'
    BY <2>1, <2>4 DEF InHand, InTable
  <2> QED BY <2>2, <2>5 DEF KeepsHeld, InTable
<1>5. CASE Close(t)
  <2>1. PICK n \in Number :
          /\ blocks' = IF IsStdIO(table[t][n]) THEN blocks \ {table[t][n][2]} ELSE blocks
          /\ fd' = [fd EXCEPT ![t] = n]
    BY <1>5 DEF Close, Number
  <2>2. pc[t] = "run" /\ pc' = [pc EXCEPT ![t] = "closing"] /\ UNCHANGED <<table, hand>>
    BY <1>5 DEF Close, Calling
  <2>3. /\ pc'[t] = "closing" /\ fd'[t] = n
        /\ \A u \in Task \ {t} : pc'[u] = pc[u] /\ fd'[u] = fd[u]
    BY <2>1, <2>2, <1>a
  <2>4. table[t][n] # StdIO(b)
    <3>1. table[t][n] = StdIO(b) => IsStdIO(table[t][n]) /\ table[t][n][2] = b
      BY DEF StdIO, IsStdIO
    <3> QED BY <2>1, <3>1
  <2>5. \A u \in Task : \A m \in Number : Owns(u, m, b) => Owns(u, m, b)'
    BY <2>2, <2>3, <2>4 DEF Owns
  <2> QED BY <2>2, <2>5, QuietHeld
<1>6. CASE Closing(t) \/ Given(t)
  <2>1. PICK n \in Number : n = fd[t]
    BY <1>6 DEF Closing, Given, TypeInv, FdSet
  <2>2. /\ table' = [table EXCEPT ![t][n] = Closed] /\ UNCHANGED hand
        /\ pc[t] \in {"closing", "giving"} /\ pc'[t] \in {"run", "paused"}
        /\ \A u \in Task \ {t} : pc'[u] = pc[u] /\ fd'[u] = fd[u]
    BY <1>6, <2>1, <1>a DEF Closing, Given
  <2>3. \A u \in Task : \A m \in Number : ~(u = t /\ m = n) => table'[u][m] = table[u][m]
    BY <2>2, <1>a
  <2>4. \A u \in Task : \A m \in Number : Owns(u, m, b) => Owns(u, m, b)'
    BY <2>1, <2>2, <2>3 DEF Owns
  <2> QED BY <2>2, <2>4, QuietHeld
<1>7. CASE Load(t)
  <2>1. CASE \E code : Error(code)
    BY <2>1, <1>c
  <2>2. CASE ~\E code : Error(code)
    <3>1. PICK n \in Number : n = fd[t]
      BY <1>7, <1>a, <2>2 DEF Load, Number, TypeInv, FdSet
    <3>2. /\ table' = [table EXCEPT ![t][n] = FileAt(Size)] /\ UNCHANGED <<hand, fd>>
          /\ pc[t] = "load" /\ pc'[t] = "closing" /\ IsFile(table[t][n])
          /\ \A u \in Task \ {t} : pc'[u] = pc[u]
      BY <1>7, <1>a, <2>2, <3>1 DEF Load
    <3>3. \A u \in Task : \A m \in Number : ~(u = t /\ m = n) => table'[u][m] = table[u][m]
      BY <3>2, <1>a
    <3>4. table[t][n] # StdIO(b)
      BY <3>2 DEF StdIO, IsFile
    <3>5. \A u \in Task : \A m \in Number : Owns(u, m, b) => Owns(u, m, b)'
      BY <3>1, <3>2, <3>3, <3>4 DEF Owns
    <3> QED BY <3>2, <3>5, QuietHeld
  <2> QED BY <2>1, <2>2
<1>8. CASE InitKernelFd(t)
  <2>1. /\ pc[t] = "init" /\ UNCHANGED fd
        /\ \A u \in Task \ {t} : table'[u] = table[u] /\ pc'[u] = pc[u] /\ hand'[u] = hand[u]
    BY <1>8, <1>a DEF InitKernelFd, Number
  <2>2. hand[t] = Closed /\ \A n \in Number : table[t][n] = Closed
    BY <2>1 DEF HandInv, InOpen
  <2>3. \A u \in Task : hand[u] = StdIO(b) => hand'[u] = StdIO(b)
    BY <2>1, <2>2, StreamsApart
  <2>4. \A u \in Task : \A n \in Number : Owns(u, n, b) => Owns(u, n, b)'
    BY <2>1, <2>2, StreamsApart DEF Owns
  <2> QED BY <2>3, <2>4 DEF KeepsHeld, InTable, InHand
<1>9. CASE Seek(t) \/ Transfer(t)
  <2>1. PICK n \in Number :
          /\ IsFile(table[t][n])
          /\ table' = table \/ \E position : table' = [table EXCEPT ![t][n] = FileAt(position)]
    BY <1>9 DEF Seek, Transfer, Number
  <2>2. UNCHANGED <<hand, fd, pc>>
    BY <1>9 DEF Seek, Transfer
  <2>3. table[t][n] # StdIO(b)
    BY <2>1 DEF StdIO, IsFile
  <2>4. \A u \in Task : \A m \in Number : ~(u = t /\ m = n) => table'[u][m] = table[u][m]
    BY <2>1, <1>a
  <2>5. \A u \in Task : \A m \in Number : Owns(u, m, b) => Owns(u, m, b)'
    BY <2>2, <2>3, <2>4 DEF Owns
  <2> QED BY <2>2, <2>5, QuietHeld
<1>10. CASE Give(t)
  <2>1. PICK c \in Task, n \in Number :
          /\ pc[c] = "paused" /\ table' = [table EXCEPT ![c][0] = table[t][n]]
          /\ fd' = [fd EXCEPT ![t] = n] /\ ~IsStdIO(table[c][0])
    BY <1>10, DescriptorAssumption DEF Give, Number
  <2>2. pc[t] = "run" /\ pc' = [pc EXCEPT ![t] = "giving"] /\ UNCHANGED hand
    BY <1>10 DEF Give, Calling
  <2>3. /\ table'[c][0] = table[t][n] /\ c # t
        /\ \A u \in Task : \A m \in Number : ~(u = c /\ m = 0) => table'[u][m] = table[u][m]
    BY <2>1, <2>2, <1>a
  <2>4. /\ pc'[t] = "giving" /\ fd'[t] = n
        /\ \A u \in Task \ {t} : pc'[u] = pc[u] /\ fd'[u] = fd[u]
    BY <2>1, <2>2, <1>a
  <2>5. ASSUME NEW u \in Task, NEW m \in Number, Owns(u, m, b)
        PROVE  IF u = t /\ m = n THEN Owns(c, 0, b)' ELSE Owns(u, m, b)'
    <3>1. CASE u = t /\ m = n
      BY <3>1, <2>1, <2>3, <2>4, <2>5 DEF Owns
    <3>2. CASE ~(u = t /\ m = n)
      <4>1. ~(u = c /\ m = 0)
        BY <2>1, <2>5, StreamsApart DEF Owns
      <4> QED BY <3>2, <4>1, <2>3, <2>4, <2>5 DEF Owns
    <3> QED BY <3>1, <3>2
  <2>6. InTable(b) => InTable(b)'
    BY <2>5, <1>a DEF InTable
  <2> QED BY <2>2, <2>6 DEF KeepsHeld, InHand
<1>11. CASE OpenNothing(t) \/ BadDescriptor(t)
  BY <1>11, <1>c DEF OpenNothing, BadDescriptor
<1>12. CASE Exec(t)
  BY <1>12, <1>a, QuietHeldTasks DEF Exec, Calling, Keeping, Locations, InOpen
<1>13. CASE ExecFile(t)
  BY <1>13, <1>a, QuietHeldTasks DEF ExecFile, Keeping, Locations, InOpen
<1>14. CASE Signal(t)
  BY <1>14, <1>a, QuietHeldTasks DEF Signal, Keeping, Locations, InOpen
<1>15. CASE Uwait(t)
  BY <1>15, <1>a, QuietHeldTasks DEF Uwait, Calling, Keeping, Locations, InOpen
<1>16. CASE Wait(t)
  BY <1>16, <1>a, QuietHeldTasks DEF Wait, Calling, Keeping, Locations, InOpen
<1>17. CASE Exit(t)
  BY <1>17, <1>a, QuietHeldTasks DEF Exit, Calling, Keeping, Locations, InOpen
<1>18. CASE Bury(t)
  <2>1. PICK mother \in Task : mother = parent[t]
    BY <1>18, DescriptorAssumption DEF Bury, TypeInv, Family
  <2>2. /\ pc[t] = "dead" /\ pc[mother] = "waiting" /\ table' = GiveSTDIOback(mother, t)
        /\ pc' = [pc EXCEPT ![t] = "buried", ![mother] = "run"] /\ UNCHANGED <<hand, fd>>
    BY <1>18, <2>1 DEF Bury
  <2>3. /\ pc'[mother] = "run" /\ pc'[t] = "buried"
        /\ \A u \in Task \ {t, mother} : pc'[u] = pc[u]
    BY <2>2, <1>a
  <2> QED BY <2>2, <2>3, BuryHeld
<1>19. CASE Reap(t)
  <2>1. PICK mother \in Task : mother = parent[t]
    BY <1>19, DescriptorAssumption DEF Reap, TypeInv, Family
  <2>2. pc[t] \in {"dead", "buried"} /\ pc'[t] = "reaped"
    <3>1. pc' \in {[pc EXCEPT ![t] = "reaped", ![mother] = "run"], [pc EXCEPT ![t] = "reaped"]}
      BY <1>19, <2>1 DEF Reap
    <3>2. pc[t] \in {"dead", "buried"} /\ (pc[mother] = "waiting" \/ pc' = [pc EXCEPT ![t] = "reaped"])
      BY <1>19, <2>1 DEF Reap
    <3> QED BY <3>1, <3>2, <1>a
  <2>3. Inherited(t, b)
    BY <2>2 DEF MayLose
  <2>4. /\ table[t][0] = StdIO(b) /\ pc[t] = "dead" /\ pc[mother] = "waiting"
        /\ ~IsStdIO(table[mother][0])
    BY <2>1, <2>3 DEF Inherited
  <2>5. /\ table' = [table EXCEPT ![mother][0] = table[t][0], ![t][0] = Closed]
        /\ pc' = [pc EXCEPT ![t] = "reaped", ![mother] = "run"]
    BY <1>19, <2>1, <2>4 DEF Reap, GiveSTDIOback
  <2>6. table'[mother][0] = StdIO(b) /\ pc'[mother] = "run"
    BY <2>4, <2>5, <1>a, MovedBack
  <2> QED BY <2>6, <1>a DEF KeepsHeld, InTable, Owns
<1> QED BY <1>1, <1>2, <1>3, <1>4, <1>5, <1>6, <1>7, <1>8, <1>9, <1>10, <1>11, <1>12, <1>13,
           <1>14, <1>15, <1>16, <1>17, <1>18, <1>19 DEF Step

\* A terminal stream in use is only lost to an OPEN that another task disturbs or with a task
\* that has no heir for it: giveSTDIOback, BINDR and CLOSE lose none, and no table is ever
\* overwritten, for any number of tasks, blocks and entries.
THEOREM NoStreamLostCorrect == Spec => NoStreamLost
<1>1. Init => OpenInv
  BY DescriptorAssumption DEF Init, OpenInv, OpenRight
<1>2. Init => HandInv
  BY DEF Init, HandInv, InOpen, Number
<1>3. TypeInv /\ OpenInv /\ [Next]_vars => OpenInv'
  <2> SUFFICES ASSUME TypeInv, OpenInv, [Next]_vars PROVE OpenInv'
    OBVIOUS
  <2>1. CASE UNCHANGED vars
    BY <2>1 DEF vars, OpenInv, OpenRight
  <2> QED BY <2>1, StepOpen DEF Next, Halted
<1>4. TypeInv /\ HandInv /\ [Next]_vars => HandInv'
  <2> SUFFICES ASSUME TypeInv, HandInv, [Next]_vars PROVE HandInv'
    OBVIOUS
  <2>1. CASE UNCHANGED vars
    BY <2>1 DEF vars, HandInv
  <2> QED BY <2>1, StepHand DEF Next, Halted
<1> DEFINE Lost(b) == Held(b) /\ ~Held(b)' =>
              \/ \E t \in raced : pc[t] = "install"
              \/ \E d \in Task : pc[d] # "reaped" /\ pc'[d] = "reaped" /\ ~Inherited(d, b)
<1>5. TypeInv /\ OpenInv /\ HandInv /\ [Next]_vars => [\A b \in blocks \cap blocks' : Lost(b)]_vars
  <2> SUFFICES ASSUME TypeInv, OpenInv, HandInv, Next, NEW b \in blocks, b \in blocks',
                      Held(b), ~Held(b)'
               PROVE  MayLose(b)
    BY DEF MayLose
  <2>1. (InTable(b) \/ InHand(b)) /\ ~(InTable(b)' \/ InHand(b)')
    BY HeldSomewhere
  <2>2. CASE Halted
    BY <2>1, <2>2 DEF Halted, vars, InTable, InHand, Owns
  <2>3. CASE \E t \in Task : Step(t)
    BY <2>1, <2>3, StepHeld DEF KeepsHeld
  <2> QED BY <2>2, <2>3 DEF Next
<1> QED BY <1>1, <1>2, <1>3, <1>4, <1>5, AlwaysTyped, PTL DEF Spec, NoStreamLost

===============================================================================
