------------------------------ MODULE Response ------------------------------
(***************************************************************************)
(* How an answer gets to the client: the handler writes to the writer of   *)
(* GzipMiddleware (internal/middleware/gzip.go), that one to the writer of *)
(* RequestLogger (logger.go), and that one to net/http, which sends the    *)
(* headers as they are at the first WriteHeader or Write.                  *)
(*                                                                         *)
(* A handler may set a Content-Type, then call WriteHeader, then Write any *)
(* number of times; each of these can be left out.  The bytes on the wire  *)
(* are tokens: a chunk as it was written, or in a gzip stream, and the     *)
(* stream's header and trailer.  The definitions introduced as slips are   *)
(* mutations, not part of the specification.                               *)
(***************************************************************************)
EXTENDS Naturals, Sequences

CONSTANT MaxWrites     \* BOUND: calls of Write by one handler

ASSUME MaxWritesAssumption == MaxWrites \in Nat

VARIABLES
  step,                \* what the handler may do next: "begin", "type", "header", "write", "end"
  accepts,             \* the client's Accept-Encoding contains gzip
  request,             \* the body of the request: "plain", "gzip" or "bad" gzip
  contentType, contentEncoding,  \* the headers, "none" if not set
  wroteHeader, compress,         \* fields of the gzipResponseWriter
  writer,              \* and its writer: "none" of it, "plain" or "gzip"
  begun,               \* the gzip stream has begun
  held,                \* chunks that gzip.Writer has not yet passed on
  sent,                \* status and encoding that net/http has sent
  wire,                \* what it has sent after them
  log,                 \* status and size of responseData
  wrote                \* history: what the handler has written

gzipVars == <<wroteHeader, compress, writer, begun, held>>
netVars == <<contentType, contentEncoding, sent, wire>>
responseVars == <<step, accepts, request, gzipVars, netVars, log, wrote>>

\* A chunk that DetectContentType takes for HTML, and one that it does not.
Chunks == {"html", "text"}
ContentTypes == {"application/json", "text/html", "text/plain"}
Statuses == {"OK", "Created", "NoContent", "BadRequest"}
Unsent == [status |-> "none", encoding |-> "none"]

compressibleTypes == {"application/json", "text/html"}

\* Slip: a status that nobody sets is logged as zero.
NothingLogged == [status |-> "zero", size |-> 0]

\* RequestLogger
FirstLog == [status |-> "OK", size |-> 0]

ResponseInit ==
  /\ step = "begin"
  /\ accepts \in BOOLEAN /\ request \in {"plain", "gzip", "bad"}
  /\ contentType = "none" /\ contentEncoding = "none"
  /\ wroteHeader = FALSE /\ compress = FALSE /\ writer = "none" /\ begun = FALSE /\ held = <<>>
  /\ sent = Unsent /\ wire = <<>>
  /\ log = FirstLog
  /\ wrote = <<>>

----------------------------------------------------------------------------
(* net/http, under the logging writer                                      *)

\* The headers are sent, with this encoding, unless they have been.
SendHeaders(status, encoding) ==
  sent' = IF sent = Unsent THEN [status |-> status, encoding |-> encoding] ELSE sent

\* loggingResponseWriter.Write
LoggedWrite(tokens, encoding) ==
  /\ SendHeaders("OK", encoding)
  /\ wire' = wire \o tokens
  /\ log' = [log EXCEPT !.size = @ + Len(tokens)]

\* loggingResponseWriter.WriteHeader
LoggedWriteHeader(status, encoding) ==
  /\ SendHeaders(status, encoding)
  /\ log' = [log EXCEPT !.status = status]
  /\ UNCHANGED wire

----------------------------------------------------------------------------
(* GzipMiddleware                                                          *)

\* The body of the request is unpacked; without a gzip header in it the handler is
\* not called.
Receive ==
  /\ step = "begin"
  /\ IF request = "bad"
       THEN /\ step' = "end" /\ contentType' = "text/plain"
            /\ sent' = [status |-> "BadRequest", encoding |-> "none"]
            /\ wire' = <<"text">> /\ wrote' = <<"text">>
            /\ log' = [status |-> "BadRequest", size |-> 1]
            /\ UNCHANGED writer
       ELSE /\ step' = "type" /\ writer' = IF accepts THEN "plain" ELSE "none"
            /\ UNCHANGED <<contentType, sent, wire, log, wrote>>
  /\ UNCHANGED <<accepts, request, contentEncoding, wroteHeader, compress, begun, held>>

\* Slip: the header is left out.
CompressSilently(type) ==
  IF writer # "none" /\ ~compress /\ type \in compressibleTypes
    THEN compress' = TRUE /\ writer' = "gzip" /\ UNCHANGED contentEncoding
    ELSE UNCHANGED <<compress, contentEncoding, writer>>

chooseCompression(type) ==
  IF writer # "none" /\ ~compress /\ type \in compressibleTypes
    THEN compress' = TRUE /\ contentEncoding' = "gzip" /\ writer' = "gzip"
    ELSE UNCHANGED <<compress, contentEncoding, writer>>

\* gzip.Writer begins its stream with the first Write or with Close, and passes on
\* what it likes of what it has.
Stream(chunks, k) ==
  (IF begun THEN <<>> ELSE <<"GzipHeader">>) \o SubSeq(chunks, 1, k)

WriteGzip(chunk) ==
  LET chunks == Append(held, chunk)
  IN  \E k \in 0..Len(chunks) :
        /\ LoggedWrite(Stream(chunks, k), contentEncoding')
        /\ held' = SubSeq(chunks, k + 1, Len(chunks))
        /\ begun' = TRUE

WritePlain(chunk) == LoggedWrite(<<chunk>>, contentEncoding') /\ UNCHANGED <<held, begun>>

Sniffed(chunk) == IF chunk = "html" THEN "text/html" ELSE "text/plain"

----------------------------------------------------------------------------
(* The handler                                                             *)

SetType(type) ==
  /\ step = "type" /\ step' = "header"
  /\ contentType' = type
  /\ UNCHANGED <<accepts, request, gzipVars, contentEncoding, sent, wire, log, wrote>>

\* gzipResponseWriter.WriteHeader, or that of the logger
WriteHeader(status) ==
  /\ step \in {"type", "header"} /\ step' = "write"
  /\ chooseCompression(contentType)
  /\ wroteHeader' = TRUE
  /\ LoggedWriteHeader(status, contentEncoding')
  /\ UNCHANGED <<accepts, request, contentType, begun, held, wrote>>

\* gzipResponseWriter.Write, or that of the logger; there is no body with 204.
Write(chunk) ==
  /\ step \in {"type", "header", "write"} /\ step' = "write"
  /\ Len(wrote) < MaxWrites /\ sent.status # "NoContent"
  /\ IF wroteHeader \/ writer = "none"
       THEN UNCHANGED <<contentType, contentEncoding, compress, writer, wroteHeader>>
       ELSE /\ contentType' = IF contentType = "none" THEN Sniffed(chunk) ELSE contentType
            /\ chooseCompression(contentType')
            /\ wroteHeader' = TRUE
  /\ IF writer' = "gzip" THEN WriteGzip(chunk) ELSE WritePlain(chunk)
  /\ wrote' = Append(wrote, chunk)
  /\ UNCHANGED <<accepts, request>>

\* Slip: Close is forgotten.
NoClose == SendHeaders("OK", contentEncoding) /\ UNCHANGED <<wire, log>>

\* Close of the gzipResponseWriter ends the stream, of which nothing may follow a 204.
\* net/http sends the headers if nobody has.
CloseWriter ==
  IF writer = "gzip" /\ sent.status # "NoContent"
    THEN LoggedWrite(Append(Stream(held, Len(held)), "GzipTrailer"), contentEncoding)
    ELSE SendHeaders("OK", contentEncoding) /\ UNCHANGED <<wire, log>>

\* The handler returns.
Return ==
  /\ step \in {"type", "header", "write"} /\ step' = "end"
  /\ CloseWriter
  /\ UNCHANGED <<accepts, request, gzipVars, contentType, contentEncoding, wrote>>

----------------------------------------------------------------------------
(* The specification                                                       *)

HandlerEnded == step = "end" /\ UNCHANGED responseVars

ResponseNext ==
  \/ Receive
  \/ \E type \in ContentTypes : SetType(type)
  \/ \E status \in Statuses : WriteHeader(status)
  \/ \E chunk \in Chunks : Write(chunk)
  \/ Return \/ HandlerEnded

ResponseSpec == ResponseInit /\ [][ResponseNext]_responseVars

----------------------------------------------------------------------------
(* Properties                                                              *)

\* What a client makes of a body
Gzipped(chunks) == <<"GzipHeader">> \o chunks \o <<"GzipTrailer">>

\* Once the handler has returned the client can read, by the encoding that it was
\* told in time, exactly what the handler wrote; and it was asked whether it can.
Readable ==
  step = "end" =>
    /\ sent.encoding = "gzip" => accepts
    /\ sent.status # "NoContent" =>
         wire = IF sent.encoding = "gzip" THEN Gzipped(wrote) ELSE wrote

\* The log has the status that was sent, and the number of bytes that were.
LoggedAsSent == step = "end" => log = [status |-> sent.status, size |-> Len(wire)]
=============================================================================
