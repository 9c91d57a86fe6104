---------------------------- MODULE MCHttpRequest ----------------------------
EXTENDS HttpRequest

(* Strings over an alphabet, up to a length. *)
Strings(alphabet, n) == UNION {[1 .. k -> alphabet] : k \in 0 .. n}

CRLF == <<"CR", "LF">>

Line(target) == <<"GET", "SP">> \o target \o <<"SP", "V1">> \o CRLF

Root == Line(<<"SLASH">>)

(* Every target of up to six bytes, against arrays of five. *)
Targets == {Line(<<"SLASH">> \o t) \o CRLF : t \in Strings({"QUEST", "PCT", "h", "HASH"}, 5)}
           \union {Line(t) \o CRLF : t \in Strings({"SLASH", "g", "CTL", "SP", "OBS"}, 2)}

(* Every request line of the words and separators it is made of. *)
RequestLines == {l \o CRLF \o CRLF : l \in Strings({"GET", "g", "SP", "SLASH", "V1", "V2"}, 5)}

(* Every short header line, and a few at the limits. *)
HeaderTexts ==
  {Root \o h \o CRLF \o CRLF : h \in Strings({"COLON", "SP", "h", "CTL"}, 5)
                                   \union {<<"h", "COLON">> \o v : v \in Strings({"SP", "OBS", "P"}, 6)}}
  \union {Root \o a \o CRLF \o b \o CRLF \o c \o CRLF :
            a, b, c \in {<<>>, <<"h", "COLON">>, <<"TE", "COLON", "g">>}}

(* Every way to end a head early, late or not at all, with what follows it. *)
Ragged == {<<"GET", "SP", "SLASH", "SP", "V1">> \o r : r \in Strings({"CR", "LF", "SP"}, 7)}

(* Every list of codings up to five bytes. *)
CodingTexts ==
  {Root \o <<"TE", "COLON">> \o v \o CRLF \o CRLF :
     v \in Strings({"chunked", "g", "COMMA", "SEMI", "SP", "P"}, 4)
           \union Strings({"chunked", "g", "COMMA"}, 5)}
  \union {Root \o <<"TE", "COLON">> \o v \o CRLF \o <<"TE", "COLON">> \o w \o CRLF \o CRLF :
            v, w \in Strings({"chunked", "g"}, 1)}

AllTexts == Targets \union RequestLines \union HeaderTexts \union Ragged \union CodingTexts
==============================================================================
