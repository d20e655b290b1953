---------------------------- MODULE MCLuaBinding ----------------------------
(* Argument lists for LuaBinding: right, too short, too long, wrong kinds. *)
EXTENDS LuaBinding

MCArguments ==
  {<<>>, <<Self>>, <<<<"string">>>>, <<<<"nil">>>>,
   <<Self, <<"config">>>>, <<Self, <<"plain config">>>>, <<Self, <<"nil">>>>,
   <<Self, <<"config">>, <<"other">>>>, <<Self, <<"config">>, <<"nil">>>>,
   <<Self, <<"string">>>>, <<Self, <<"string">>, <<"number">>>>,
   <<Self, <<"number">>, <<"nil">>>>, <<Self, <<"function">>>>,
   <<Self, <<"string">>, <<"number">>, <<"other">>>>}
=============================================================================
