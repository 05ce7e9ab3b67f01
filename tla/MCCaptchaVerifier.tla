------------------------- MODULE MCCaptchaVerifier -------------------------
(* CaptchaVerifier with settings that turn it off, and that use the service *)
(* with and without TLS.                                                    *)
EXTENDS CaptchaVerifier

MCSettings ==
  {[enabled |-> FALSE, https |-> FALSE], [enabled |-> TRUE, https |-> FALSE],
   [enabled |-> TRUE, https |-> TRUE]}

=============================================================================
