-------------------------- MODULE MC_AvahiAnnounce --------------------------
(* Two KISS ports on one radio channel; another Dire Wolf already publishes  *)
(* the plain names and "#2" of the all-channel KISS name, so the first add   *)
(* of those names collides and the retry loop runs more than once.           *)
EXTENDS AvahiAnnounce

MC_NKiss == 2
MC_Chans == {0}
MC_Others == {<<"agwpe", <<-1, 1>>>>, <<"kiss", <<-1, 1>>>>, <<"kiss", <<-1, 2>>>>}
MC_MaxDisrupt == 2
=============================================================================
