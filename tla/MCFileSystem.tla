---------------------------- MODULE MCFileSystem ----------------------------
(***************************************************************************)
(* TLC instance of FileSystem: a disk of eight sectors, of which three are *)
(* free, and a directory of two entries, the first with its name in the    *)
(* second block.                                                           *)
(***************************************************************************)
EXTENDS FileSystem

MCConditionLock == [c \in Conditions |-> diskLock]
MCInitialValue  == [s \in Semaphores |-> 0]
MCSectors       == 0 .. 7
MCDirBlocks     == <<3, 4>>
MCFlagsAt       == <<3, 4>>
MCNamesAt       == <<4, 4>>
=============================================================================
