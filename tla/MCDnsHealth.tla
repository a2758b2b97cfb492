---------------------------- MODULE MCDnsHealth ----------------------------
(* A small instance of DnsHealth: filtered, let pass with and without an AAAA
   record, and no answer. *)
EXTENDS DnsHealth

SomeReplies == {<<"refused", "refused">>, <<"addresses", "addresses">>, <<"addresses", "nodata">>,
                <<"failed", "failed">>}
=============================================================================
