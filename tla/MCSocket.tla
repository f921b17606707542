------------------------------- MODULE MCSocket ------------------------------
(* A small instance of Socket for TLC. *)
EXTENDS Socket

MCCharacters == {"request", "|END", "|", "HTTP/", "{", "}", "h", "x", "y", "z", "."}

(* An HTTP answer with a header, one without; an answer of a node, one     *)
(* that goes on after the marker, one without a marker, and ones that are  *)
(* as long as the buffer or longer.                                        *)
MCReplies ==
    [k \in Kind |->
        IF k = "http"
        THEN {<<"HTTP/", "h", "{", "x", "}">>, <<"{", "x", "{", "}">>,
              <<"HTTP/", "{", "x", "y", "}", ".", ".">>}
        ELSE {<<"x", "y", "|END", "|">>, <<"x", "|END", "|", "z">>,
              <<"x", "y", "z">>, <<"x", "y", "z", "x", "|END", "|">>}]
==============================================================================
