------------------------------ MODULE MCParsers ------------------------------
(***************************************************************************)
(* The three ragel parsers for TLC.  They do not interact: a behaviour is  *)
(* one of Uri, HttpRequestParser or HttpResponseParser, as which says, and *)
(* the variables of the other two stay as they are.  The inputs are all    *)
(* strings over the classes of characters, cut into reads in all ways;     *)
(* nothing is bounded.                                                     *)
(***************************************************************************)
EXTENDS Naturals

VARIABLE which
VARIABLES u_cs, u_mark, u_uri, u_here, u_rfc, u_two, u_result
VARIABLES q_cs, q_mark, q_field_start, q_query_start, q_field_len, q_uri_relaxed, q_m_error,
          q_version, q_got, q_here, q_msg, q_tail, q_cut
VARIABLES s_cs, s_mark, s_field_start, s_field_len, s_chunked, s_close, s_m_error, s_content_len,
          s_chunk, s_got, s_here, s_msg, s_said, s_off, s_tail, s_cut

U == INSTANCE Uri WITH cs <- u_cs, mark <- u_mark, uri <- u_uri, here <- u_here, rfc <- u_rfc,
     two <- u_two, result <- u_result
Q == INSTANCE HttpRequestParser WITH cs <- q_cs, mark <- q_mark, field_start <- q_field_start,
     query_start <- q_query_start, field_len <- q_field_len, uri_relaxed <- q_uri_relaxed,
     m_error <- q_m_error, version <- q_version, got <- q_got, here <- q_here, msg <- q_msg,
     tail <- q_tail, cut <- q_cut
S == INSTANCE HttpResponseParser WITH cs <- s_cs, mark <- s_mark, field_start <-
     s_field_start, field_len <- s_field_len, chunked <- s_chunked, close <- s_close, m_error <- s_m_error,
     content_len <- s_content_len, chunk <- s_chunk, got <- s_got, here <- s_here, msg <-
     s_msg, said <- s_said, off <- s_off, tail <- s_tail, cut <- s_cut

uvars == <<u_cs, u_mark, u_uri, u_here, u_rfc, u_two, u_result>>
qvars == <<q_cs, q_mark, q_field_start, q_query_start, q_field_len, q_uri_relaxed, q_m_error,
           q_version, q_got, q_here, q_msg, q_tail, q_cut>>
svars == <<s_cs, s_mark, s_field_start, s_field_len, s_chunked, s_close, s_m_error, s_content_len,
           s_chunk, s_got, s_here, s_msg, s_said, s_off, s_tail, s_cut>>
vars == <<which, uvars, qvars, svars>>
Init ==
  /\ which \in {"uri", "request", "response"}
  /\ U!Init /\ Q!Init /\ S!Init
  \* a choice that is another parser's is made once
  /\ (which # "request" => ~q_uri_relaxed) /\ (which # "response" => ~s_chunk)
Next ==
  \/ which = "uri" /\ U!Next /\ UNCHANGED <<which, qvars, svars>>
  \/ which = "request" /\ Q!Next /\ UNCHANGED <<which, uvars, svars>>
  \/ which = "response" /\ S!Next /\ UNCHANGED <<which, uvars, qvars>>
Spec == Init /\ [][Next]_vars
-----------------------------------------------------------------------------
\* Uri::Create accepts only what RFC 3986 allows (or a string with a char 2, which the grammar takes
\* for a mark), and rejects only what it does not allow and abbreviated or dotted IPv6 addresses.
UriExactlyUris == U!OnlyUris /\ U!RejectsOnlyOthers
\* The fields of the Uri are the components of the string, except a userinfo with a digit after its
\* first ":", and a path after an authority without a scheme, which is dropped.
UriFieldsAreComponents == U!FieldsAreComponents
\* Uri::Create throws only after an empty port (or on a string with a char 2).
UriThrowsOnlyOnEmptyPort == U!ThrowsOnlyOnEmptyPort
\* A request is finished at an empty line only, and at the first one, whatever reads it came in,
\* unless a header line without ":" came before it or it is an XML or JSON message.
RequestEndsAtBlankLine == Q!EndsAtBlankLine /\ Q!BlankLineEnds
\* The callbacks of the request parser are given the elements they are named for, setHeader a name
\* and the value of the same line, and the version is the message's; if a read ended inside the
\* element, what is left of it, and of a query what is at an offset of an earlier buffer.
RequestElements == Q!CallbacksGetElements /\ Q!HeadersArePaired /\ Q!VersionIsTheMessages
\* The head of a response is finished at an empty line only, and at the first one, whatever reads it
\* came in, unless the last header before it is a special one with an empty value: the parser then
\* does not know that the head has ended.
ResponseEndsAtBlankLine == S!EndsAtBlankLine /\ S!BlankLineEnds
\* The callbacks of the response parser are given the elements they are named for (if a read ended
\* inside the element, what is left of it), setHeader a name and the value of the same line, except
\* for a special header with an empty value there.
ResponseElements == S!CallbacksGetElements /\ S!HeadersArePaired
\* chunked, close and content_len are set from a header line exactly if one says so, when no special
\* header has an empty value.
ResponseFlagsAreSaid == S!FlagsAreSaid
=============================================================================
