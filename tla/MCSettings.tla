----------------------------- MODULE MCSettings -----------------------------
(* Instances of Settings for TLC. *)
EXTENDS Settings

\* Two kinds of administrator's files: none at all, and the one of the package.
MCSysFiles ==
  {Missing, Good([port |-> 9876, mode |-> "R", log_file |-> "/var/log/lanft/", protocol |-> "udp"])}

MCUserFiles ==
  {Missing, Broken, Good([port |-> Wrong, buffer_size |-> 0, auto_accept |-> TRUE])}

\* A few fields of each kind are changed; the others keep what they have.
MCChoices ==
  [f \in Fields \union DOMAIN NoPage |->
     CASE f = "overwrite_policy" -> {"skip"}
       [] f = "save_dir" -> {"odd"}
       [] f = "auto_accept" -> {TRUE}
       [] f = "mode" -> {"receive"}
       [] f = "log_file" -> {"", "own.log"}
       [] f = "recv_savepath" -> {"/data"}
       [] f = "send_target_ip" -> {"10.0.0.2"}
       [] OTHER -> {}]
=============================================================================
