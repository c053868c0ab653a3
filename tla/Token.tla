------------------------------- MODULE Token --------------------------------
(***************************************************************************)
(* boost/http/token.hpp and token.ipp: the token codes and the coarser     *)
(* views of a code, its symbol and its category.                           *)
(***************************************************************************)

ErrorCode == {"error_insufficient_data", "error_set_method",
              "error_use_another_connection", "error_invalid_data",
              "error_no_host", "error_invalid_content_length",
              "error_content_length_overflow",
              "error_invalid_transfer_encoding", "error_chunk_size_overflow"}

DataCode == {"method", "request_target", "version", "status_code",
             "reason_phrase", "field_name", "field_value", "chunk_ext",
             "body_chunk", "trailer_name", "trailer_value"}

StructuralCode == {"end_of_headers", "end_of_body", "end_of_message"}

Code == ErrorCode \cup {"skip"} \cup DataCode \cup StructuralCode

(* token::symbol::convert *)
symbol(code) == IF code \in ErrorCode THEN "error" ELSE code

(* token::category::convert *)
category(code) == CASE code \in ErrorCode \cup {"skip"} -> "status"
                    [] code \in DataCode                -> "data"
                    [] code \in StructuralCode          -> "structural"
=============================================================================
