--------------------------- MODULE BandwidthProbe ---------------------------
(***************************************************************************)
(* One bandwidth probe of a selected node: measure_bw dials through the    *)
(* node's adapter, read_body_bytes sends a GET and counts what comes back, *)
(* run_bw_batch cuts it off with a timeout.  The answer of the endpoint is *)
(* a status line of number fields, then headers, then a body; bytes are    *)
(* counted in units of the read buffer.                                    *)
(***************************************************************************)
EXTENDS Naturals, Sequences

CONSTANTS
  Codes,     \* status codes the endpoint may answer with
  MaxBody,   \* bound: length of the body served
  MaxBytes,  \* bw_max_bytes
  MaxHeads,  \* the 8192 bytes a header may have
  Https,     \* whether bw_probe_url is https
  NONE

VARIABLES
  step,    \* where the probe is: "dial", "tls", "request", "headers", "status",
           \* "body" or "done"
  answer,  \* what the endpoint sends: its status line, what is left of the body
  heads,   \* header units read
  got,     \* body units read
  result,  \* the sample, or NONE
  fault    \* history: something other than the endpoint's answer ended it

vars == <<step, answer, heads, got, result, fault>>

(* A status line "HTTP/1.<minor> <code> ...": its protocol prefix is seven
   bytes long, the fields after it are separated by blanks. *)
StatusLine(code) == [prefix |-> "HTTP/1.", fields |-> <<1, code>>]

Answers == [line: {StatusLine(c) : c \in Codes}, left: 0..MaxBody]

Init ==
  /\ step = "dial" /\ answer \in Answers
  /\ heads = 0 /\ got = 0 /\ result = NONE /\ fault = FALSE

-----------------------------------------------------------------------------
(* windows(7).next(): the first seven bytes, the prefix and no field. *)
FirstWindow(line) == [line EXCEPT !.fields = <<>>]

(* The check as written: the first blank-separated field after the prefix
   must parse as a code from 200 to 399. *)
StatusOk(line) ==
  LET w == FirstWindow(line)
  IN /\ w.prefix = "HTTP/1."
     /\ w.fields # <<>>
     /\ Head(w.fields) \in 200..399

Continue(next) == step' = next /\ UNCHANGED <<result, fault>>

GiveUp == step' = "done" /\ result' = NONE /\ fault' = TRUE

(* No adapter for the tag, or the dial fails. *)
Dial ==
  /\ step = "dial"
  /\ GiveUp \/ Continue(IF Https THEN "tls" ELSE "request")
  /\ UNCHANGED <<answer, heads, got>>

Handshake ==
  /\ step = "tls"
  /\ GiveUp \/ Continue("request")
  /\ UNCHANGED <<answer, heads, got>>

SendRequest ==
  /\ step = "request"
  /\ GiveUp \/ Continue("headers")
  /\ UNCHANGED <<answer, heads, got>>

(* Read on, up to the blank line; an end before it, or too long a header, is
   no answer. *)
ReadHeader ==
  /\ step = "headers"
  /\ \/ GiveUp /\ UNCHANGED heads
     \/ heads < MaxHeads /\ heads' = heads + 1 /\ Continue("headers")
     \/ Continue("status") /\ UNCHANGED heads
  /\ UNCHANGED <<answer, got>>

CheckStatus ==
  /\ step = "status"
  /\ IF StatusOk(answer.line) THEN Continue("body")
     ELSE step' = "done" /\ result' = NONE /\ UNCHANGED fault
  /\ UNCHANGED <<answer, heads, got>>

(* Read on to the end of the body or to MaxBytes; nothing read is no sample. *)
ReadBody ==
  /\ step = "body"
  /\ \/ GiveUp /\ UNCHANGED <<answer, got>>
     \/ /\ got < MaxBytes /\ answer.left > 0
        /\ got' = got + 1 /\ answer' = [answer EXCEPT !.left = @ - 1]
        /\ Continue("body")
     \/ /\ got >= MaxBytes \/ answer.left = 0
        /\ step' = "done" /\ result' = (IF got > 0 THEN got ELSE NONE)
        /\ UNCHANGED <<answer, got, fault>>
  /\ UNCHANGED heads

(* The timeout of run_bw_batch drops the future wherever it is. *)
Timeout ==
  /\ step # "done"
  /\ GiveUp
  /\ UNCHANGED <<answer, heads, got>>

Next == Dial \/ Handshake \/ SendRequest \/ ReadHeader \/ CheckStatus \/ ReadBody \/ Timeout

Spec == Init /\ [][Next]_vars

-----------------------------------------------------------------------------
(* http_probe.rs, read_body_bytes: "as long as the status line is 2xx/3xx it
   counts as a usable download".  So an answer with such a code and with a
   body, which nothing cut off, gives a sample. *)
DownloadIsASample ==
  /\ step = "done" /\ ~fault
  /\ answer.line.fields[2] \in 200..399 /\ got + answer.left > 0
  => result # NONE
=============================================================================
