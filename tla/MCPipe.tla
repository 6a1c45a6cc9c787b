------------------------------- MODULE MCPipe -------------------------------
(* A pipe of two bytes whose counters wrap every four. *)
EXTENDS Pipe

TwoTasks == {<<"task", "task">>}
=============================================================================
