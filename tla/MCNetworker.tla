---------------------------- MODULE MCNetworker -----------------------------
(* Instances of Networker for model checking. *)
EXTENDS Networker

Plain == EmptyAllowlist
WithSubnet == [subnets |-> {"office"}, tcp |-> {22}, udp |-> {}]
WithDns == [subnets |-> {}, tcp |-> {}, udp |-> {53}]

WithLan == [subnets |-> {"lan"}, tcp |-> {}, udp |-> {}]

OneAllowlist == {Plain}
TwoAllowlists == {Plain, WithSubnet}
AllAllowlists == {Plain, WithSubnet, WithDns, WithLan}
=============================================================================
