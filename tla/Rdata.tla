------------------------------- MODULE Rdata --------------------------------
(***************************************************************************)
(* The gate of src/rdata.rs in front of the presentation-format parser,    *)
(* which `record add', the start and every reload go through.              *)
(***************************************************************************)
CONSTANTS
    TooLong,     \* values of more than MAX_VALUE_CHARS characters
    Unparsable   \* values the parser refuses

\* rdata::parse_value: a value that would abort the lexer never reaches it.
parse_value(value) == value \notin TooLong /\ value \notin Unparsable
=============================================================================
