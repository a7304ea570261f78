------------------------------- MODULE MCBeans -------------------------------
(* One user, one application, a queue of one stop request; a user is rich at *)
(* 2 beans, where a mail is sent, too.                                       *)
EXTENDS Beans

ConstLow == -1
=============================================================================
