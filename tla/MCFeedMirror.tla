---------------------------- MODULE MCFeedMirror ----------------------------
EXTENDS FeedMirror
=============================================================================
