----------------------------- MODULE MCDelivery -----------------------------
(* Delivery with values for TLC: each source tree tries one gate, and the two
   local configurations differ in what they lack and in a setting no schema knows. *)
EXTENDS Delivery, TLC

MCSize == (1 :> 2) @@ (2 :> 3)
MCSources == {{"page", "asset", "manifest"}, {"page", "device"}, {"page", "odd"},
              {"page", "loose"}, {"page", "save"}, {"page", "link"}}
Release == <<"release", "">>
Mime == <<"mime_types", "wasm">>
OldMime == <<"mime_types", "old">>
Channel == <<"update", "channel">>
Address == <<"update", "patch_base_url">>
Port == <<"port", "base">>
Stray == <<"stray", "">>
MCPaths == {Release, Mime, OldMime, Channel, Address, Port, Stray}
MCShipped == (1 :> {Release, Mime, Channel}) @@ (2 :> {Release, Mime, Channel, Port})
MCKnown == MCPaths \ {Stray}
MCDefaults == {Port}
MCLocal == {{Release, OldMime, Address}, {Release, Channel, Address, Stray}}
=============================================================================
