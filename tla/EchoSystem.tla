----------------------------- MODULE EchoSystem -----------------------------
(***************************************************************************)
(* One echo session, end to end: the two threads of the echo client, the   *)
(* two directions of a TCP connection with bounded buffers, and str_echo   *)
(* in the server.                                                          *)
(*                                                                         *)
(* Source: 20251106-SocketC/src/client/echo_client.c                       *)
(*         20251106-SocketC/src/server/fork-server.c (str_echo; the one in *)
(*         threads-server.c is the same)                                   *)
(*         20251106-SocketC/src/wraplib.c (Readline)                       *)
(*                                                                         *)
(* The user types text: no NUL bytes, so strlen and fputs see all of a     *)
(* buffer.                                                                 *)
(***************************************************************************)
EXTENDS Integers, Sequences, SequencesExt

CONSTANTS
    Chars, NL,    \* what the user may type; NL is the newline
    Inputs,       \* the inputs considered
    MAXLINE,      \* size of sendline and recvline
    BUFSIZE,      \* size of str_echo's buf
    CAP           \* bytes TCP holds in one direction

ASSUME EchoAssumption ==
    /\ NL \in Chars
    /\ Inputs \subseteq Seq(Chars)
    /\ MAXLINE \in Nat \ {0, 1}
    /\ BUFSIZE \in Nat \ {0}
    /\ CAP \in Nat \ {0}

VARIABLES
    typed,      \* all the user types in this session
    stdin,      \* the part fgets has not read yet
    sendline,   \* the part of copyto's buffer that is not written yet
    wpc,        \* where copyto is
    c2s, c2sFin,    \* client to server: bytes under way, FIN sent
    buf, spc,       \* str_echo's unsent bytes, and where it is
    s2c, s2cFin,    \* server to client
    reset,      \* the server's end answered with RST
    recvline,   \* what Readline has put into recvline
    rpc,        \* where str_cli is, or how the client has ended
    out         \* what the client has written to stdout

vars == <<typed, stdin, sendline, wpc, c2s, c2sFin, buf, spc, s2c, s2cFin, reset,
          recvline, rpc, out>>

Init ==
    /\ typed \in Inputs
    /\ stdin = typed
    /\ sendline = <<>>
    /\ wpc = "gets"
    /\ c2s = <<>> /\ c2sFin = FALSE
    /\ buf = <<>> /\ spc = "recv"
    /\ s2c = <<>> /\ s2cFin = FALSE
    /\ reset = FALSE
    /\ recvline = <<>>
    /\ rpc = "read"
    /\ out = <<>>

ClientUp == rpc \in {"read", "puts"}
-----------------------------------------------------------------------------
(***************************************************************************)
(* copyto, the client's sending thread                                     *)
(***************************************************************************)
\* How much fgets takes: up to and including the first newline, and at most
\* MAXLINE - 1 bytes.
LineLen(s) ==
    CHOOSE n \in 1 .. Len(s) :
        /\ n < MAXLINE
        /\ \A k \in 1 .. n - 1 : s[k] # NL
        /\ s[n] = NL \/ n = MAXLINE - 1 \/ n = Len(s)

CopytoGets ==
    /\ ClientUp /\ wpc = "gets"
    /\ stdin # <<>>
    /\ sendline' = SubSeq(stdin, 1, LineLen(stdin))
    /\ stdin' = SubSeq(stdin, LineLen(stdin) + 1, Len(stdin))
    /\ wpc' = "write"
    /\ UNCHANGED <<typed, c2s, c2sFin, buf, spc, s2c, s2cFin, reset, recvline, rpc, out>>

\* Writen blocks while TCP has no room, and writes all of the line.
CopytoWrites ==
    /\ ClientUp /\ wpc = "write"
    /\ spc # "failed" /\ Len(c2s) < CAP
    /\ c2s' = Append(c2s, Head(sendline))
    /\ sendline' = Tail(sendline)
    /\ wpc' = IF Len(sendline) = 1 THEN "gets" ELSE "write"
    /\ UNCHANGED <<typed, stdin, c2sFin, buf, spc, s2c, s2cFin, reset, recvline, rpc, out>>

\* The server has gone: SIGPIPE, or an error and err_sys, ends the client.
CopytoFails ==
    /\ ClientUp /\ wpc = "write"
    /\ spc = "failed"
    /\ rpc' = "killed"
    /\ UNCHANGED <<typed, stdin, sendline, wpc, c2s, c2sFin, buf, spc, s2c, s2cFin, reset,
                   recvline, out>>

\* Mutation: both directions are shut down.
CopytoShutdownBoth ==
    /\ ClientUp /\ wpc = "gets"
    /\ stdin = <<>>
    /\ c2sFin' = TRUE
    /\ s2cFin' = TRUE
    /\ wpc' = "returned"
    /\ UNCHANGED <<typed, stdin, sendline, c2s, buf, spc, s2c, reset, recvline, rpc, out>>

\* End of file on stdin: Shutdown(sockfd, SHUT_WR), and the thread returns.
CopytoShutdown ==
    /\ ClientUp /\ wpc = "gets"
    /\ stdin = <<>>
    /\ c2sFin' = TRUE
    /\ wpc' = "returned"
    /\ UNCHANGED <<typed, stdin, sendline, c2s, buf, spc, s2c, s2cFin, reset, recvline, rpc,
                   out>>
-----------------------------------------------------------------------------
(***************************************************************************)
(* str_cli, the client's reading thread                                    *)
(***************************************************************************)
\* Mutation: Readline's loop runs once more.
LineEndsLate(s) == s[Len(s)] = NL \/ Len(s) = MAXLINE

\* Readline's loop ends with a newline, or with MAXLINE - 1 bytes.
LineEnds(s) == s[Len(s)] = NL \/ Len(s) = MAXLINE - 1

\* Mutation: the client reads only when it has sent everything.
ReadByteAfterSend ==
    /\ rpc = "read" /\ ~reset
    /\ wpc = "returned"
    /\ s2c # <<>>
    /\ recvline' = Append(recvline, Head(s2c))
    /\ s2c' = Tail(s2c)
    /\ rpc' = IF LineEnds(recvline') THEN "puts" ELSE "read"
    /\ UNCHANGED <<typed, stdin, sendline, wpc, c2s, c2sFin, buf, spc, s2cFin, reset, out>>

\* Readline takes one byte with Recv, and returns when the line is complete.
ReadByte ==
    /\ rpc = "read" /\ ~reset
    /\ s2c # <<>>
    /\ recvline' = Append(recvline, Head(s2c))
    /\ s2c' = Tail(s2c)
    /\ rpc' = IF LineEnds(recvline') THEN "puts" ELSE "read"
    /\ UNCHANGED <<typed, stdin, sendline, wpc, c2s, c2sFin, buf, spc, s2cFin, reset, out>>

\* Fputs(recvline, stdout)
PutLine ==
    /\ rpc = "puts"
    /\ out' = out \o recvline
    /\ recvline' = <<>>
    /\ rpc' = "read"
    /\ UNCHANGED <<typed, stdin, sendline, wpc, c2s, c2sFin, buf, spc, s2c, s2cFin, reset>>

\* End of file: a last line without newline is printed, then Readline returns 0,
\* str_cli returns, and exit(0) ends copyto as well.
ReadEof ==
    /\ rpc = "read" /\ ~reset
    /\ s2c = <<>> /\ s2cFin
    /\ out' = out \o recvline
    /\ recvline' = <<>>
    /\ rpc' = "exit"
    /\ UNCHANGED <<typed, stdin, sendline, wpc, c2s, c2sFin, buf, spc, s2c, s2cFin, reset>>

\* Recv fails after an RST: err_sys.
ReadFails ==
    /\ rpc = "read" /\ reset
    /\ rpc' = "failed"
    /\ UNCHANGED <<typed, stdin, sendline, wpc, c2s, c2sFin, buf, spc, s2c, s2cFin, reset,
                   recvline, out>>
-----------------------------------------------------------------------------
(***************************************************************************)
(* str_echo, and the end of the process that runs it                       *)
(***************************************************************************)
\* recv returns any number of the bytes that have arrived, up to the buffer's size.
ServerRecv ==
    /\ spc = "recv"
    /\ \E n \in 1 .. BUFSIZE :
          /\ n <= Len(c2s)
          /\ buf' = SubSeq(c2s, 1, n)
          /\ c2s' = SubSeq(c2s, n + 1, Len(c2s))
    /\ spc' = "send"
    /\ UNCHANGED <<typed, stdin, sendline, wpc, c2sFin, s2c, s2cFin, reset, recvline, rpc, out>>

\* Mutation: what does not fit at once is dropped.
ServerSendShort ==
    /\ spc = "send"
    /\ Len(s2c) < CAP
    /\ s2c' = Append(s2c, Head(buf))
    /\ buf' = <<>>
    /\ spc' = "recv"
    /\ UNCHANGED <<typed, stdin, sendline, wpc, c2s, c2sFin, s2cFin, reset, recvline, rpc, out>>

\* Send blocks while TCP has no room, and sends all of buf.
ServerSend ==
    /\ spc = "send"
    /\ Len(s2c) < CAP
    /\ s2c' = Append(s2c, Head(buf))
    /\ buf' = Tail(buf)
    /\ spc' = IF Len(buf) = 1 THEN "recv" ELSE "send"
    /\ UNCHANGED <<typed, stdin, sendline, wpc, c2s, c2sFin, s2cFin, reset, recvline, rpc, out>>

\* recv returns 0: str_echo returns and exit(0) closes the socket.
ServerEof ==
    /\ spc = "recv"
    /\ c2s = <<>> /\ c2sFin
    /\ spc' = "ended"
    /\ s2cFin' = TRUE
    /\ UNCHANGED <<typed, stdin, sendline, wpc, c2s, c2sFin, buf, s2c, reset, recvline, rpc, out>>

\* recv or Send fails, or the process is killed.  Its socket is closed; when bytes
\* are left unread in it TCP sends RST, and the client loses what it has not read.
ServerFails ==
    /\ spc \in {"recv", "send"}
    /\ spc' = "failed"
    /\ buf' = <<>>
    /\ s2cFin' = TRUE
    /\ reset' = (c2s # <<>>)
    /\ s2c' = IF c2s # <<>> THEN <<>> ELSE s2c
    /\ UNCHANGED <<typed, stdin, sendline, wpc, c2s, c2sFin, recvline, rpc, out>>

copyto   == CopytoGets \/ CopytoWrites \/ CopytoFails \/ CopytoShutdown
str_cli  == ReadByte \/ PutLine \/ ReadEof \/ ReadFails
str_echo == ServerRecv \/ ServerSend \/ ServerEof

Next == copyto \/ str_cli \/ str_echo \/ ServerFails

Spec == Init /\ [][Next]_vars
-----------------------------------------------------------------------------
(***************************************************************************)
(* Properties.                                                             *)
(***************************************************************************)
\* Every variable keeps its type; no buffer overflows: sendline and recvline
\* leave room for the final NUL (wraplib.c:39, :53).
TypeOK ==
    /\ typed \in Inputs
    /\ stdin \in Seq(Chars) /\ out \in Seq(Chars)
    /\ sendline \in Seq(Chars) /\ Len(sendline) < MAXLINE
    /\ recvline \in Seq(Chars) /\ Len(recvline) < MAXLINE
    /\ buf \in Seq(Chars) /\ Len(buf) <= BUFSIZE
    /\ c2s \in Seq(Chars) /\ Len(c2s) <= CAP
    /\ s2c \in Seq(Chars) /\ Len(s2c) <= CAP
    /\ wpc \in {"gets", "write", "returned"}
    /\ spc \in {"recv", "send", "ended", "failed"}
    /\ rpc \in {"read", "puts", "exit", "killed", "failed"}
    /\ c2sFin \in BOOLEAN /\ s2cFin \in BOOLEAN /\ reset \in BOOLEAN

\* Wherever fgets, TCP, recv and Readline cut the stream, no byte is lost, doubled
\* or reordered: what was typed is what is printed plus what is in the buffers
\* between; after a server failure what is printed is still a prefix of it.
StreamConserved ==
    /\ IsPrefix(out \o recvline \o s2c, typed)
    /\ spc # "failed" =>
         typed = out \o recvline \o s2c \o buf \o c2s \o sendline \o stdin

\* exit(0) after the reading loop (echo_client.c:33, :55) ends the sending thread
\* too: unless the server failed it comes only when every typed byte is printed.
ExitLosesNothing == rpc = "exit" /\ spc # "failed" => out = typed

\* Both threads of the client run, and so does the server's process.
Fairness == WF_vars(copyto) /\ WF_vars(str_cli) /\ WF_vars(str_echo)

FairSpec == Spec /\ Fairness

\* Client and server never wait for each other for ever, however small the
\* buffers between them: the session ends.
SessionEnds == <>~ClientUp
=============================================================================
