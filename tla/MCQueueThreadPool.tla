------------------------- MODULE MCQueueThreadPool -------------------------
(* Instance of QueueThreadPool for TLC.                                    *)
EXTENDS QueueThreadPool
InProgramOrder == {ProgramOrder}
InAnyOrder == {ProgramOrder, <<"tail", "pointer">>}
=============================================================================
