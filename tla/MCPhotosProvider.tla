-------------------------- MODULE MCPhotosProvider --------------------------
(* One share_url album of up to three photos on two days, and one            *)
(* ember_bridge album that is pushed one of the same photos and another one. *)
EXTENDS PhotosProvider

MCAlbumSeq == <<"share", "ember">>

MCShare == {"share"}

MCAlbumPhotos == [a \in MCShare |-> 1..3]

MCInitially == [a \in MCShare |-> 1..2]

MCDay == <<"mon", "mon", "tue">>

MCPushable == {{2, 5}}
=============================================================================
