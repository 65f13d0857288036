------------------------------ MODULE MCFrames ------------------------------
(* Small pictures, flat and square, and drivers with one and several formats. *)
EXTENDS Frames

MCSizes == {<<4, 4>>, <<8, 4>>}
MCLists == {<<>>, <<"H264">>, <<"SBGGR8">>, <<"RGB24">>, <<"UYVY", "H264">>, <<"YUYV", "MJPEG">>,
            <<"MJPEG", "JPEG">>, <<"YUV420", "YUYV">>, <<"YUYV", "YUV420">>}
=============================================================================
