------------------------------ MODULE MemFile ------------------------------
(***************************************************************************)
(* memfile: a file read into memory at once, as scc::run uses it: load on  *)
(* a memfile that holds nothing, release, and a destructor that does       *)
(* nothing.  A path is what can be read there: a text, the empty file, or  *)
(* NoFile.                                                                 *)
(***************************************************************************)
EXTENDS Naturals, Sequences

CONSTANTS NoText,    \* nullptr
          NoFile,    \* a path that fopen does not open
          MaxFiles   \* FOPEN_MAX, less the files that others have open

ASSUME MemFileAssumption == MaxFiles \in Nat

VARIABLES m_ptext, m_nsize,
          files,   \* files the process has open
          texts    \* buffers the process has allocated and not freed

memvars == <<m_ptext, m_nsize, files, texts>>

MemInit == m_ptext = NoText /\ m_nsize = 0 /\ files = 0 /\ texts = 0

Opens(path) == path # NoFile /\ files < MaxFiles

\* What goes wrong after fopen ends at __failure, which closes the file and
\* releases what was allocated.
Failure == m_ptext' = NoText /\ m_nsize' = 0 /\ UNCHANGED <<files, texts>>

LoadOpenFails(path) == ~Opens(path) /\ UNCHANGED memvars
LoadEmpty(path)     == Opens(path) /\ path = <<>> /\ Failure
\* new fails for a file too big, or one of which ftell cannot tell the size.
LoadNoMemory(path)  == Opens(path) /\ path # <<>> /\ Failure
LoadShortRead(path) == Opens(path) /\ path # <<>> /\ Failure
LoadFails(path) ==
    LoadOpenFails(path) \/ LoadEmpty(path) \/ LoadNoMemory(path) \/ LoadShortRead(path)

\* Success returns without closing the file.
LoadOK(path) ==
    /\ Opens(path) /\ path # <<>>
    /\ m_ptext' = path /\ m_nsize' = Len(path)
    /\ files' = files + 1 /\ texts' = texts + 1

\* release, and the end of a memfile that nobody released.
Release ==
    /\ m_ptext' = NoText /\ m_nsize' = 0
    /\ texts' = IF m_ptext = NoText THEN texts ELSE texts - 1
    /\ UNCHANGED files
Forget == m_ptext' = NoText /\ m_nsize' = 0 /\ UNCHANGED <<files, texts>>
=============================================================================
