-------------------------------- MODULE Log ---------------------------------
(***************************************************************************)
(* The log file (source/core/nxdt_log.c): messages are collected in a      *)
(* buffer of LOG_BUF_SIZE bytes that is written out when the next message  *)
(* does not fit; a message as long as the buffer is written directly.      *)
(* Every call runs under g_logMutex, so a call is one step.  A byte of     *)
(* message m is <<m, k>>, the k-th of it.                                  *)
(***************************************************************************)
EXTENDS Integers, Sequences

CONSTANTS LOG_BUF_SIZE, \* size of the buffer
          LogSizes,     \* lengths of messages, line ending included
          MaxMessages   \* bound: messages

ASSUME LogAssumption == LOG_BUF_SIZE \in Nat \ {0} /\ LogSizes \subseteq Nat \ {0}

VARIABLES logFile,   \* what the file holds
          logOpen,   \* g_logFile is open
          logBuffer, \* the first g_logBufferLength bytes of g_logBuffer
          lastMsg,   \* g_lastLogMsg
          messages,  \* lengths of the messages so far (bound and history)
          torn       \* history: messages of which a direct write or the last flush failed

logvars == <<logFile, logOpen, logBuffer, lastMsg, messages, torn>>

LogInit == /\ logFile = <<>> /\ logOpen = FALSE /\ logBuffer = <<>> /\ lastMsg = 0
           /\ messages = <<>> /\ torn = {}

Bytes(m, from, to) == [k \in 1..(to - from + 1) |-> <<m, from + k - 1>>]

\* Mutant of _logFlushLogFile: a failed write is taken to have written nothing.
FlushTwice(ok) ==
  [file |-> logFile \o logBuffer, rest |-> IF ok THEN <<>> ELSE logBuffer]

\* _logFlushLogFile: what is left in the buffer after a write that may fail.
_logFlushLogFile(ok) ==
  IF ok THEN [file |-> logFile \o logBuffer, rest |-> <<>>]
  ELSE [file |-> logFile, rest |-> logBuffer]

\* The direct writes of a long message, whole buffers of it; the first `good`
\* of them succeed.
WholeBlocks(len) == len \div LOG_BUF_SIZE
DirectWrites(file, m, good) == file \o Bytes(m, 1, good * LOG_BUF_SIZE)

\* The file, open already or opened and appended to now.
logOpenLogFile(opens) == logOpen \/ opens

\* _logWriteFormattedStringToLogFile and _logWriteStringToLogFile.  The file is
\* opened by the first message; while that fails messages are dropped.
LogMessage(len, opens, flushes, good) ==
  /\ Len(messages) < MaxMessages
  /\ messages' = Append(messages, len)
  /\ LET m == Len(messages) + 1
         full == Len(logBuffer) + len >= LOG_BUF_SIZE
         f == _logFlushLogFile(flushes)
         blocks == WholeBlocks(len)
     IN \/ /\ ~logOpenLogFile(opens)
           /\ UNCHANGED <<logFile, logOpen, logBuffer, lastMsg, torn>>
        \/ /\ logOpenLogFile(opens)
           /\ logOpen' = TRUE /\ lastMsg' = m
           /\ IF len < LOG_BUF_SIZE
              THEN /\ UNCHANGED torn
                   /\ IF full
                      THEN /\ logFile' = f.file
                           /\ logBuffer' = IF f.rest # <<>> THEN f.rest ELSE Bytes(m, 1, len)
                      ELSE logFile' = logFile /\ logBuffer' = logBuffer \o Bytes(m, 1, len)
              ELSE IF f.rest # <<>>
                   THEN logFile' = f.file /\ logBuffer' = f.rest /\ UNCHANGED torn
                   ELSE /\ logFile' = DirectWrites(f.file, m, good)
                        /\ torn' = IF good < blocks THEN torn \cup {m} ELSE torn
                        /\ logBuffer' = IF good < blocks THEN <<>>
                                        ELSE Bytes(m, blocks * LOG_BUF_SIZE + 1, len)

logFlushLogFile(ok) ==
  /\ logOpen /\ logBuffer # <<>>
  /\ LET f == _logFlushLogFile(ok) IN logFile' = f.file /\ logBuffer' = f.rest
  /\ UNCHANGED <<logOpen, lastMsg, messages, torn>>

\* logCloseLogFile: the last flush, and the buffer is gone whether it
\* succeeded or not.
logCloseLogFile(ok) ==
  /\ logOpen
  /\ logFile' = (IF logBuffer # <<>> THEN _logFlushLogFile(ok).file ELSE logFile)
  /\ torn' = IF logBuffer # <<>> /\ ~ok THEN torn \cup {logBuffer[p][1] : p \in 1..Len(logBuffer)}
             ELSE torn
  /\ logOpen' = FALSE /\ logBuffer' = <<>> /\ lastMsg' = 0
  /\ UNCHANGED messages

LogNext ==
  \/ \E len \in LogSizes : \E o, f \in BOOLEAN, good \in 0..WholeBlocks(len) :
       LogMessage(len, o, f, good)
  \/ \E ok \in BOOLEAN : logFlushLogFile(ok) \/ logCloseLogFile(ok)

----------------------------------------------------------------------------
\* What the file and the buffer hold together are whole messages in the order
\* they were logged: a failed flush never loses a part of a message, writes
\* one twice or lets a later message overtake.  Only a message longer than
\* the buffer is cut short, when a direct write of it or the last flush fails
\* (nxdt_log.c:251-285).
LogIsWhole ==
  LET all == logFile \o logBuffer
  IN \A p \in 1..Len(all) :
       LET m == all[p][1]
           k == all[p][2]
       IN /\ k = 1 => p = 1 \/ all[p - 1][1] < m
          /\ k > 1 => p > 1 /\ all[p - 1] = <<m, k - 1>>
          /\ (p = Len(all) \/ all[p + 1][1] # m) => k = messages[m] \/ m \in torn
=============================================================================
