---------------------------- MODULE ChunkedWorkload ----------------------------
(***************************************************************************)
(* A chunked workload of any kernel: executeWorkload of                    *)
(* core/src/ipc_server.ts looks at the kernel and goes the way of a matrix *)
(* or an image (ChunkEngine) or of a video (VideoWorkload).                *)
(***************************************************************************)
EXTENDS ChunkEngine, VideoWorkload

VARIABLE kernelId

workloadVars == <<vars, videoVars, kernelId>>

\* The other way is not taken: its variables keep one initial value.
NoRows == height = 1 /\ radius = 0
NoVideo == /\ totalFrames = 1 /\ chunkSize = 1 /\ supplied = 1 /\ concurrency = 1
           /\ left = <<>>

WorkloadInit ==
  /\ Init /\ VideoInit
  /\ \/ kernelId \in {"matrix_multiply_v1", "image_filter_box_blur_v1"} /\ NoVideo
        /\ (kernelId = "matrix_multiply_v1" => radius = 0)
     \/ kernelId = "video_frame_analysis_v1" /\ NoRows

ExecuteRows ==
  /\ kernelId \in {"matrix_multiply_v1", "image_filter_box_blur_v1"}
  /\ Next
  /\ UNCHANGED <<videoVars, kernelId>>

ExecuteVideo ==
  /\ kernelId = "video_frame_analysis_v1"
  /\ VideoNext
  /\ UNCHANGED <<vars, kernelId>>

WorkloadSpec == WorkloadInit /\ [][ExecuteRows \/ ExecuteVideo]_workloadVars

=============================================================================
