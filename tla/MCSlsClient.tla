----------------------------- MODULE MCSlsClient -----------------------------
(***************************************************************************)
(* A small instance of SlsClient: raw sizes on both sides of the scaled    *)
(* LZ4_MAX_INPUT_SIZE and INT_MAX, and the status codes around each class  *)
(* boundary.                                                               *)
(***************************************************************************)
EXTENDS SlsClient

MCConfig == [token : BOOLEAN, hash_key_mode : BOOLEAN]

MCInput ==
  [op : {"putLogs"}, raw : {1, 6, 7, 9}, encodable : BOOLEAN, hash_key : BOOLEAN]
  \cup [op : {"createProject", "createLogStore"}, raw : {5}, encodable : {TRUE}, hash_key : {FALSE}]
  \cup [op : {"deleteProject", "deleteLogStore"}, raw : {0}, encodable : {TRUE}, hash_key : {FALSE}]
=============================================================================
