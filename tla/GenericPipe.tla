----------------------------- MODULE GenericPipe -----------------------------
(***************************************************************************)
(* How GenericSolver (src/generic_solver.cpp) talks to a solver binary     *)
(* through two pipes: a command is written in pieces of write_buf_size,    *)
(* its reply read in pieces of read_buf_size until is_done holds.  Of a    *)
(* text only what is_done looks at is kept: parentheses, newlines and      *)
(* other characters; every character of a reply carries the number of the  *)
(* command it answers.                                                     *)
(***************************************************************************)
EXTENDS Naturals, Sequences, FiniteSets

CONSTANTS
  Commands,        \* what a client sends, each without its last newline
  Replies,         \* what the binary may print for a command
  WriteBufSize, ReadBufSize,
  PipeSize,        \* characters a pipe holds
  MaxCommands      \* bound: commands in a behaviour, the first one included

ASSUME BufferSizes ==
  /\ WriteBufSize \in 2 .. 256 /\ ReadBufSize \in 2 .. 256
  /\ PipeSize \in Nat /\ PipeSize >= WriteBufSize
  /\ MaxCommands \in Nat /\ MaxCommands > 0

VARIABLES
  pc,            \* the client: "write", "read", "idle", "closed", "killed"
  sent,          \* commands begun
  todo,          \* what is left to write of the command
  result,        \* what read_internal has read so far
  outpipe,       \* client to binary
  inpipe,        \* binary to client: its stdout and its stderr
  peer,          \* what holds the other ends: "starting" (the child before
                 \* execv), "binary", "gone" or "copy" (of the client)
  depth,         \* parentheses open in what the binary has read of a command
  printing,      \* what is left to print of a reply
  asked,         \* the reply the binary chose for the last command
  copies         \* processes that run the code of the client

client == <<pc, sent, todo, result>>
binary == <<peer, depth, printing, asked>>
vars == <<client, binary, outpipe, inpipe, copies>>

Newline == "\n"
Chars == {"(", ")", Newline, "c"}

Opened(s) == Cardinality({i \in 1 .. Len(s) : s[i] = "("})
Closed(s) == Cardinality({i \in 1 .. Len(s) : s[i] = ")"})
Text(s) == [i \in 1 .. Len(s) |-> s[i].char]
Smaller(a, b) == IF a < b THEN a ELSE b

(* A command is one list: its first parenthesis closes with its last       *)
(* character.                                                              *)
ASSUME CommandShape ==
  \A c \in Commands :
    /\ c \in Seq(Chars) /\ c # <<>> /\ c[Len(c)] = ")"
    /\ Opened(c) = Closed(c)
    /\ \A k \in 1 .. Len(c) - 1 : Opened(SubSeq(c, 1, k)) > Closed(SubSeq(c, 1, k))

TypeOK ==
  /\ pc \in {"write", "read", "idle", "closed", "killed"}
  /\ sent \in 1 .. MaxCommands
  /\ todo \in Seq(Chars) /\ outpipe \in Seq(Chars)
  /\ pc \in {"read", "idle", "closed"} => todo = <<>>
  /\ \A s \in {result, inpipe, printing} :
       s \in Seq([char : Chars, cmd : 1 .. MaxCommands])
  /\ asked \in Replies \cup {<<>>}
  /\ peer \in {"starting", "binary", "gone", "copy"}
  /\ depth \in Nat /\ copies \in 1 .. 2

(* start_solver forks and its last statement sends the first command:      *)
(* (set-option :print-success true)                                        *)
Init ==
  /\ pc = "write" /\ sent = 1 /\ result = <<>>
  /\ todo \in {Append(c, Newline) : c \in Commands}
  /\ outpipe = <<>> /\ inpipe = <<>>
  /\ peer = "starting" /\ depth = 0 /\ printing = <<>> /\ asked = <<>>
  /\ copies = 1

-----------------------------------------------------------------------------
(* The client. *)

run_command(c) ==
  /\ pc = "idle" /\ sent < MaxCommands
  /\ pc' = "write" /\ sent' = sent + 1
  /\ todo' = Append(c, Newline) /\ result' = <<>>
  /\ UNCHANGED <<binary, outpipe, inpipe, copies>>

(* one piece; write() waits for room, and kills a process whose reader is  *)
(* gone.  write_once takes the first piece for the whole command.          *)
write_once ==
  /\ pc = "write"
  /\ LET n == Smaller(Len(todo), WriteBufSize)
     IN \/ /\ peer # "gone" /\ Len(outpipe) + n <= PipeSize
           /\ outpipe' = outpipe \o SubSeq(todo, 1, n)
           /\ todo' = SubSeq(todo, n + 1, Len(todo))
           /\ pc' = "read"
        \/ /\ peer = "gone" /\ pc' = "killed"
           /\ UNCHANGED <<todo, outpipe>>
  /\ UNCHANGED <<sent, result, inpipe, binary, copies>>

write_internal ==
  /\ pc = "write"
  /\ LET n == Smaller(Len(todo), WriteBufSize)
     IN \/ /\ peer # "gone" /\ Len(outpipe) + n <= PipeSize
           /\ outpipe' = outpipe \o SubSeq(todo, 1, n)
           /\ todo' = SubSeq(todo, n + 1, Len(todo))
           /\ pc' = IF todo' = <<>> THEN "read" ELSE "write"
        \/ /\ peer = "gone" /\ pc' = "killed"
           /\ UNCHANGED <<todo, outpipe>>
  /\ UNCHANGED <<sent, result, inpipe, binary, copies>>

(* A reply in parentheses ends at a newline after its last ), any other    *)
(* one at a newline in what was just read; 0 characters mean end of file.  *)
(* done_eager: without the wait for the newline after the last ).          *)
DoneInParentheses(text) == Opened(text) = Closed(text) /\ text[Len(text)] = Newline
NewlineJustRead(just_read, text) ==
  \E i \in Len(text) - just_read + 1 .. Len(text) : text[i] = Newline

done_eager(just_read, text) ==
  \/ just_read = 0
  \/ text[1] = "(" /\ Opened(text) = Closed(text)
  \/ text[1] # "(" /\ NewlineJustRead(just_read, text)

(* the parentheses of the last piece alone are counted *)
done_last_piece(just_read, text) ==
  \/ just_read = 0
  \/ /\ text[1] = "("
     /\ DoneInParentheses(SubSeq(text, Len(text) - just_read + 1, Len(text)))
  \/ text[1] # "(" /\ NewlineJustRead(just_read, text)

is_done(just_read, text) ==
  \/ just_read = 0
  \/ text[1] = "(" /\ DoneInParentheses(text)
  \/ text[1] # "(" /\ NewlineJustRead(just_read, text)

(* What the binary prints: a list and the newline after it, or one line.   *)
ASSUME ReplyShape ==
  \A r \in Replies :
    /\ r \in Seq(Chars) /\ r # <<>>
    /\ r[1] = "(" =>
         \A k \in 1 .. Len(r) : DoneInParentheses(SubSeq(r, 1, k)) <=> k = Len(r)
    /\ r[1] # "(" => \A k \in 1 .. Len(r) : r[k] = Newline <=> k = Len(r)

(* one read(); it waits for characters or for the end of file *)
read_internal ==
  /\ pc = "read"
  /\ inpipe # <<>> \/ peer = "gone"
  /\ LET n == Smaller(Len(inpipe), ReadBufSize)
     IN /\ result' = result \o SubSeq(inpipe, 1, n)
        /\ inpipe' = SubSeq(inpipe, n + 1, Len(inpipe))
        /\ pc' = IF is_done(n, Text(result')) THEN "idle" ELSE "read"
  /\ UNCHANGED <<sent, todo, binary, outpipe, copies>>

(* the destructor kills the process and waits for it *)
close_solver ==
  /\ pc = "idle" /\ pc' = "closed"
  /\ peer' = "gone" /\ depth' = 0 /\ printing' = <<>>
  /\ UNCHANGED <<sent, todo, result, asked, outpipe, inpipe, copies>>

-----------------------------------------------------------------------------
(* The process behind the pipes. *)

Tagged(r, n) == [i \in 1 .. Len(r) |-> [char |-> r[i], cmd |-> n]]

(* reads one character; a command ends where its parentheses close *)
BinaryReads ==
  /\ peer = "binary" /\ printing = <<>> /\ outpipe # <<>>
  /\ LET c == Head(outpipe)
         d == CASE c = "(" -> depth + 1 [] c = ")" -> depth - 1 [] OTHER -> depth
     IN /\ depth' = d
        /\ IF c = ")" /\ d = 0
           THEN \E r \in Replies :
                  /\ asked' = r
                  /\ printing' = Tagged(r, sent)
           ELSE UNCHANGED <<asked, printing>>
  /\ outpipe' = Tail(outpipe)
  /\ UNCHANGED <<client, peer, inpipe, copies>>

(* its output may arrive in pieces of any size *)
BinaryPrints ==
  /\ peer = "binary" /\ printing # <<>> /\ Len(inpipe) < PipeSize
  /\ \E n \in {1, Smaller(Len(printing), PipeSize - Len(inpipe))} :
       /\ inpipe' = inpipe \o SubSeq(printing, 1, n)
       /\ printing' = SubSeq(printing, n + 1, Len(printing))
  /\ UNCHANGED <<client, peer, depth, asked, outpipe, copies>>

BinaryExits ==
  /\ peer = "binary" /\ pc # "killed"
  /\ peer' = "gone" /\ depth' = 0 /\ printing' = <<>>
  /\ UNCHANGED <<client, asked, outpipe, inpipe, copies>>

(* execv returns: the child throws.  A handler of the client catches the   *)
(* exception in the child, which goes on as a second client and keeps the  *)
(* pipes open; without a handler the child ends with a message on stderr.  *)
execv_fails ==
  /\ peer = "starting"
  /\ \/ peer' = "copy" /\ copies' = 2 /\ UNCHANGED inpipe
     \/ /\ peer' = "gone"
        /\ inpipe' = <<[char |-> "c", cmd |-> 1], [char |-> Newline, cmd |-> 1]>>
        /\ UNCHANGED copies
  /\ UNCHANGED <<client, depth, printing, asked, outpipe>>

execv_succeeds ==
  /\ peer = "starting" /\ peer' = "binary"
  /\ UNCHANGED <<client, depth, printing, asked, outpipe, inpipe, copies>>

-----------------------------------------------------------------------------
Client == (\E c \in Commands : run_command(c)) \/ close_solver
Next ==
  \/ Client \/ write_internal \/ read_internal
  \/ execv_fails \/ execv_succeeds \/ BinaryReads \/ BinaryPrints \/ BinaryExits

(* The client's thread goes on inside a call, the child process runs, and  *)
(* a solver binary reads its input and prints what it has to say.          *)
Fairness ==
  /\ WF_vars(write_internal) /\ WF_vars(read_internal)
  /\ WF_vars(execv_fails \/ execv_succeeds)
  /\ WF_vars(BinaryReads) /\ WF_vars(BinaryPrints)

Spec == Init /\ [][Next]_vars /\ Fairness

-----------------------------------------------------------------------------
(* run_command hands out the whole reply to its own command: when it       *)
(* returns, nothing of the reply is left for the next command to read, and *)
(* no character of another reply is in it, however the texts were cut.     *)
InStep ==
  pc = "idle" /\ peer = "binary" =>
    /\ Text(result) = asked /\ \A i \in 1 .. Len(result) : result[i].cmd = sent
    /\ inpipe = <<>> /\ printing = <<>>

(* The invariant behind it.  The binary still has to read the rest of a    *)
(* command c, of which it has read k characters and before which at most   *)
(* the newline of the last command is left; nothing is on its way back.    *)
Unread == outpipe \o todo

Rest(u, m, c, k) ==
  /\ Len(u) = m + Len(c) + 1 - k
  /\ \A i \in 1 .. Len(u) :
       u[i] = IF m < i /\ i + k <= m + Len(c) THEN c[i + k - m] ELSE Newline

Asking ==
  /\ pc \in {"write", "read"} /\ (pc = "write" => todo # <<>>)
  /\ result = <<>> /\ inpipe = <<>> /\ printing = <<>>
  /\ \E c \in Commands : \E m \in {0, 1}, k \in 0 .. Len(c) - 1 :
       /\ m = 1 => k = 0
       /\ Rest(Unread, m, c, k)
       /\ depth + Closed(SubSeq(c, 1, k)) = Opened(SubSeq(c, 1, k))

(* Or the reply to this command is read, in the pipe and being printed, in *)
(* that order, and at most a newline is left to read for the binary.       *)
Answering ==
  /\ asked \in Replies /\ result \o inpipe \o printing = Tagged(asked, sent)
  /\ depth = 0
  /\ Len(Unread) <= 1 /\ \A i \in 1 .. Len(Unread) : Unread[i] = Newline
  /\ pc \in {"write", "read", "idle"}
  /\ pc = "write" => todo # <<>> /\ result = <<>>
  /\ pc = "read" => Len(result) < Len(asked)
  /\ pc = "idle" => Len(result) = Len(asked)

IInv ==
  /\ TypeOK
  /\ peer \in {"starting", "binary"} => Asking \/ Answering

(* A call of run_command comes back, also when the binary dies meanwhile   *)
(* (by an exception for want of "success", or by SIGPIPE).                 *)
CallReturns ==
  pc \in {"write", "read"} ~> pc \in {"idle", "killed"} \/ peer = "copy"

(* "Nothing below this line should be executed by child process"           *)
(* (src/generic_solver.cpp:153): no second process runs the client.        *)
OneClient == copies = 1
=============================================================================
