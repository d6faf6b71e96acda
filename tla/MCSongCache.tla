---------------------------- MODULE MCSongCache ----------------------------
EXTENDS SongCache
MCExtents == <<1, 2>>
=============================================================================
