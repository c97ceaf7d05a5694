--------------------------- MODULE StatefulOrder ---------------------------
(***************************************************************************)
(* The order a stateful walk promises, and what its consumer may conclude  *)
(* from the end of the iterator.                                           *)
(***************************************************************************)
EXTENDS StatefulWalk

(* The traversal of a single thread that reads each directory when it comes to it: by    *)
(* recursion over the tree, with the callback's state handed down.                       *)
RECURSIVE Below(_), Yield(_, _)
Yield(items, batch) ==
  IF items = <<>> THEN <<>>
  ELSE LET item == Head(items) IN
       (IF Visible(item) THEN <<item>> ELSE <<>>)
       \o (IF item.reads
           THEN Below(Task(0, item.path, batch.ancestors \cup {Last(item.path)}, batch.state))
           ELSE <<>>)
       \o Yield(Tail(items), batch)
Below(task) == Yield(WholeBatch(task).items, WholeBatch(task))

UpToFirstError(s) ==
  LET failed == {i \in DOMAIN s : ~s[i].ok}
  IN IF builder.abort /\ ~builder.reentrant /\ failed # {} THEN SubSeq(s, 1, Min(failed)) ELSE s

Promise ==
  LET order == (IF Visible(RootEntry) THEN <<RootEntry>> ELSE <<>>)
               \o (IF RootReads THEN Below(RootTask) ELSE <<>>)
  IN UpToFirstError(order)

Closing == {RootError, ScheduleError}

(* Whatever the order in which the jobs finish, and on either path, the items sent are a *)
(* prefix of that traversal, every entry with the state its own directory's callback     *)
(* gave it, followed at most by the error that ends the walk.                            *)
SerialOrder ==
  LET items == SelectSeq(sent, LAMBDA i : i \notin Closing)
  IN /\ IsPrefix(items, Promise)
     /\ IsPrefix(items, sent) /\ Len(sent) <= Len(items) + 1

(* A consumer that reaches the end has seen the whole traversal, or an error in its      *)
(* place, or the executor has rejected a job while a frame was prepared.                 *)
EndIsExplained ==
  consumer = "exhausted" => sent = Promise \/ ToSet(sent) \cap Closing # {} \/ scheduleError
=============================================================================
